---------------------------- MODULE Spec2Model ----------------------------
(***************************************************************************)
(* A model of the kakao_chatbot component engine: the card components of   *)
(* response/components/card.py, Context of context.py and the event model  *)
(* of event.py, with BaseModel.remove_none_item of base.py.                *)
(*                                                                         *)
(* One object is constructed (Init) and then driven by its public          *)
(* operations (one action each); a second object, twin, is constructed     *)
(* from equal arguments and never operated on.  Every Python value is a    *)
(* one-field record                                                        *)
(* whose field name is its type, so that isinstance is a test on the       *)
(* record's domain and values of different types can be compared.          *)
(*                                                                         *)
(* The leaf classes (Button, ListItem, Thumbnail, ...) and the validation  *)
(* utilities live in modules that are not part of the sources at hand      *)
(* (response/components/common.py, itemcard.py, validation.py); they are   *)
(* modelled from the specification, sections 4.1 and 4.2.                  *)
(***************************************************************************)
EXTENDS Integers, Sequences, FiniteSets, TLC

VARIABLES obj, last, twin, shared

vars == <<obj, last, twin, shared>>

---------------------------------------------------------------------------
(* Bounds of the model. *)

\* the longest buttons list an add_button may produce
MaxButtonsLen == 3
\* how far past max_items the items of a ListCardComponent may grow
ItemsOverCap == 1
\* the longest item_list an ItemCardComponent.add_item may start from
MaxItemListLen == 3
\* the longest users list an add_user may produce
MaxUsersLen == 3

---------------------------------------------------------------------------
(* Python values. *)

None == [none |-> TRUE]
StrV(s) == [str |-> s]
IntV(n) == [int |-> n]
BoolV(b) == [bool |-> b]
DictV(f) == [dict |-> f]
ListV(s) == [list |-> s]
\* the object a method returns when it returns self
\* what a classmethod that builds an object returns: the new object
New == [new |-> TRUE]

Self == [self |-> TRUE]
\* what a call that raised hands back: nothing
NoReturn == [noreturn |-> TRUE]

IsNone(v) == "none" \in DOMAIN v
IsStr(v) == "str" \in DOMAIN v
IsInt(v) == "int" \in DOMAIN v
IsDict(v) == "dict" \in DOMAIN v
IsList(v) == "list" \in DOMAIN v
\* isinstance(v, cls) for the library's classes
IsInstance(cls, v) == cls \in DOMAIN v

\* bool(v): None, "", 0, False, {} and [] are falsy, any object is truthy
Truthy(v) ==
    IF IsNone(v) THEN FALSE
    ELSE IF IsStr(v) THEN v.str # ""
    ELSE IF IsInt(v) THEN v.int # 0
    ELSE IF "bool" \in DOMAIN v THEN v.bool
    ELSE IF IsDict(v) THEN DOMAIN v.dict # {}
    ELSE IF IsList(v) THEN Len(v.list) > 0
    ELSE TRUE

EmptyDict == DictV(<<>>)

---------------------------------------------------------------------------
(* Exceptions and the outcome of a call. *)

Err(exc, site) == [exc |-> exc, site |-> site]
NoError == Err("none", "")

Ok(v) == [err |-> NoError, ret |-> v]
Raise(e) == [err |-> e, ret |-> NoReturn]
Raised(r) == r.err # NoError

\* the first exception raised by a sequence of checks run in order
FirstErr(checks) ==
    IF \E i \in 1..Len(checks) : checks[i] # NoError
    THEN checks[CHOOSE i \in 1..Len(checks) :
                    /\ checks[i] # NoError
                    /\ \A j \in 1..(i - 1) : checks[j] = NoError]
    ELSE NoError

\* [f(x) for x in seq] where f may raise: the first exception, or the list
MapResults(rs) ==
    LET e == FirstErr([i \in 1..Len(rs) |-> rs[i].err])
    IN  IF e # NoError THEN Raise(e)
        ELSE Ok(ListV([i \in 1..Len(rs) |-> rs[i].ret]))

---------------------------------------------------------------------------
(* base.py *)

\* BaseModel.remove_none_item: the pairs of base whose value is not None
\* every key kept, None or not
remove_none_item_keeping(base) == base

remove_none_item(base) ==
    [key \in {k \in DOMAIN base : base[k] # None} |-> base[key]]

---------------------------------------------------------------------------
(* validation.py, from section 4.1 of the specification: a value that is   *)
(* present and of the wrong type fails with InvalidTypeError; an absent    *)
(* value fails only with disallow_none.                                    *)

InvalidTypeError(site) == Err("InvalidTypeError", site)

\* isinstance of a value for the type a validator expects
HasType(type, v) == type \in DOMAIN v

CheckEach(type, values, disallow_none, site) ==
    FirstErr([i \in 1..Len(values) |->
        IF IsNone(values[i])
        THEN (IF disallow_none THEN InvalidTypeError(site) ELSE NoError)
        ELSE IF HasType(type, values[i]) THEN NoError
        ELSE InvalidTypeError(site)])

validate_str(values, disallow_none) ==
    CheckEach("str", values, disallow_none, "validate_str")

validate_int(values, disallow_none) ==
    CheckEach("int", values, disallow_none, "validate_int")

validate_type(cls, values, disallow_none) ==
    CheckEach(cls, values, disallow_none, "validate_type")

---------------------------------------------------------------------------
(* Python's binding of a call with positional and keyword arguments to the *)
(* parameters of the callee.                                               *)
(* A call is [args |-> sequence of values, kwargs |-> name :> value].      *)

Call(args, kwargs) == [args |-> args, kwargs |-> kwargs]
NoKw == <<>>

PosOf(params, p) == CHOOSE i \in 1..Len(params) : params[i] = p
ParamSet(params) == {params[i] : i \in 1..Len(params)}

\* TypeError: too many positionals, an unknown keyword, a parameter given
\* twice, or a parameter without default left out
BindError(params, defaults, call, site) ==
    IF \/ Len(call.args) > Len(params)
       \/ \E k \in DOMAIN call.kwargs : k \notin ParamSet(params)
       \/ \E k \in DOMAIN call.kwargs : PosOf(params, k) <= Len(call.args)
       \/ \E p \in ParamSet(params) :
            /\ PosOf(params, p) > Len(call.args)
            /\ p \notin DOMAIN call.kwargs
            /\ p \notin DOMAIN defaults
    THEN Err("TypeError", site)
    ELSE NoError

\* the value bound to parameter p (of a call that binds)
Bound(params, defaults, call, p) ==
    IF PosOf(params, p) <= Len(call.args) THEN call.args[PosOf(params, p)]
    ELSE IF p \in DOMAIN call.kwargs THEN call.kwargs[p]
    ELSE defaults[p]

---------------------------------------------------------------------------
(* The leaf classes of response/components/common.py and itemcard.py, from *)
(* sections 3 and 4.2 of the specification: the constructor stores its     *)
(* arguments, validate checks each field, render validates and then maps   *)
(* the fields to their camelCase keys, leaving out the absent ones.        *)

ActionEnum == {"webLink", "message", "phone", "block", "share", "operator"}

\* the field an action needs: webLink needs web_link_url, and so on
ActionField(action) ==
    CASE action = "webLink" -> "web_link_url"
      [] action = "message" -> "message_text"
      [] action = "phone" -> "phone_number"
      [] action = "block" -> "block_id"
      [] OTHER -> ""

\* the signature of Button, as the overload of add_button gives it
ButtonParams ==
    <<"label", "action", "web_link_url", "message_text", "phone_number",
      "block_id", "extra">>
ButtonDefaults ==
    [web_link_url |-> None, message_text |-> None, phone_number |-> None,
     block_id |-> None, extra |-> None]

\* Button(...): the new Button, or TypeError when the call does not bind
Button(call) ==
    LET e == BindError(ButtonParams, ButtonDefaults, call, "Button")
        b(p) == Bound(ButtonParams, ButtonDefaults, call, p)
    IN  IF e # NoError THEN Raise(e)
        ELSE Ok([Button |->
                  [label |-> b("label"), action |-> b("action"),
                   web_link_url |-> b("web_link_url"),
                   message_text |-> b("message_text"),
                   phone_number |-> b("phone_number"),
                   block_id |-> b("block_id"), extra |-> b("extra")]])

\* the action-dependent requiredness shared by Button and ListItem
ActionCheck(f, required) ==
    IF IsNone(f.action)
    THEN (IF required THEN Err("InvalidActionError", "action") ELSE NoError)
    ELSE IF ~IsStr(f.action) \/ f.action.str \notin ActionEnum
    THEN Err("InvalidActionError", "action")
    ELSE IF ActionField(f.action.str) # ""
            /\ ~IsStr(f[ActionField(f.action.str)])
    THEN Err("InvalidActionError", ActionField(f.action.str))
    ELSE NoError

Button_validate(v) ==
    LET f == v.Button
    IN  FirstErr(<<validate_str(<<f.label>>, TRUE),
                   ActionCheck(f, TRUE),
                   validate_str(<<f.web_link_url, f.message_text,
                                  f.phone_number, f.block_id>>, FALSE),
                   validate_type("dict", <<f.extra>>, FALSE)>>)

Button_render(v) ==
    LET f == v.Button
        e == Button_validate(v)
    IN  IF e # NoError THEN Raise(e)
        ELSE Ok(DictV(remove_none_item(
                  [label |-> f.label, action |-> f.action,
                   webLinkUrl |-> f.web_link_url,
                   messageText |-> f.message_text,
                   phoneNumber |-> f.phone_number,
                   blockId |-> f.block_id, extra |-> f.extra])))

\* the signature of ListItem, as the overload of ListCard's add_item gives it
ListItemParams ==
    <<"title", "description", "image_url", "link", "action", "block_id",
      "message_text", "extra">>
ListItemDefaults ==
    [description |-> None, image_url |-> None, link |-> None,
     action |-> None, block_id |-> None, message_text |-> None,
     extra |-> None]

ListItem(call) ==
    LET e == BindError(ListItemParams, ListItemDefaults, call, "ListItem")
        b(p) == Bound(ListItemParams, ListItemDefaults, call, p)
    IN  IF e # NoError THEN Raise(e)
        ELSE Ok([ListItem |->
                  [title |-> b("title"), description |-> b("description"),
                   image_url |-> b("image_url"), link |-> b("link"),
                   action |-> b("action"), block_id |-> b("block_id"),
                   message_text |-> b("message_text"),
                   extra |-> b("extra")]])

ListItem_validate(v) ==
    LET f == v.ListItem
    IN  FirstErr(<<validate_str(<<f.title>>, TRUE),
                   validate_str(<<f.description, f.image_url>>, FALSE),
                   validate_type("Link", <<f.link>>, FALSE),
                   ActionCheck(f @@ [web_link_url |-> None,
                                     phone_number |-> None], FALSE),
                   validate_type("dict", <<f.extra>>, FALSE)>>)

ListItem_render(v) ==
    LET f == v.ListItem
        e == ListItem_validate(v)
    IN  IF e # NoError THEN Raise(e)
        ELSE Ok(DictV(remove_none_item(
                  [title |-> f.title, description |-> f.description,
                   imageUrl |-> f.image_url, link |-> f.link,
                   action |-> f.action, blockId |-> f.block_id,
                   messageText |-> f.message_text, extra |-> f.extra])))

\* Item(title, description) of the item card
ItemParams == <<"title", "description">>

Item(call) ==
    LET e == BindError(ItemParams, <<>>, call, "Item")
        b(p) == Bound(ItemParams, <<>>, call, p)
    IN  IF e # NoError THEN Raise(e)
        ELSE Ok([Item |-> [title |-> b("title"),
                           description |-> b("description")]])

Item_validate(v) ==
    validate_str(<<v.Item.title, v.Item.description>>, TRUE)

Item_render(v) ==
    LET e == Item_validate(v)
    IN  IF e # NoError THEN Raise(e)
        ELSE Ok(DictV([title |-> v.Item.title,
                       description |-> v.Item.description]))

\* Thumbnail and ItemThumbnail: an image URL and the fixed-ratio flag
Thumbnail(image_url) ==
    [Thumbnail |-> [image_url |-> image_url, fixed_ratio |-> None]]
ItemThumbnail(image_url) ==
    [ItemThumbnail |-> [image_url |-> image_url, fixed_ratio |-> None]]

Thumbnail_render(f) ==
    LET e == validate_str(<<f.image_url>>, TRUE)
    IN  IF e # NoError THEN Raise(e)
        ELSE Ok(DictV(remove_none_item(
                  [imageUrl |-> f.image_url, fixedRatio |-> f.fixed_ratio])))

\* Profile: a nickname and an optional image URL
Profile(nickname, image_url) ==
    [Profile |-> [nickname |-> nickname, image_url |-> image_url]]

Profile_render(f) ==
    LET e == FirstErr(<<validate_str(<<f.nickname>>, TRUE),
                        validate_str(<<f.image_url>>, FALSE)>>)
    IN  IF e # NoError THEN Raise(e)
        ELSE Ok(DictV(remove_none_item(
                  [nickname |-> f.nickname, imageUrl |-> f.image_url])))

\* ItemProfile: a title and an optional image URL
ItemProfile(title, image_url) ==
    [ItemProfile |-> [title |-> title, image_url |-> image_url]]

ItemProfile_render(f) ==
    LET e == FirstErr(<<validate_str(<<f.title>>, TRUE),
                        validate_str(<<f.image_url>>, FALSE)>>)
    IN  IF e # NoError THEN Raise(e)
        ELSE Ok(DictV(remove_none_item(
                  [title |-> f.title, imageUrl |-> f.image_url])))

\* ImageTitle: a title with an optional description
ImageTitle(title, description) ==
    [ImageTitle |-> [title |-> title, description |-> description]]

ImageTitle_render(f) ==
    LET e == FirstErr(<<validate_str(<<f.title>>, TRUE),
                        validate_str(<<f.description>>, FALSE)>>)
    IN  IF e # NoError THEN Raise(e)
        ELSE Ok(DictV(remove_none_item(
                  [title |-> f.title, description |-> f.description])))

\* ItemListSummary: a price, which is a non-negative integer
ItemListSummary(price) == [ItemListSummary |-> [price |-> price]]

ItemListSummary_render(f) ==
    LET e == validate_int(<<f.price>>, TRUE)
    IN  IF e # NoError THEN Raise(e)
        ELSE IF f.price.int < 0
        THEN Raise(Err("ValueError", "ItemListSummary.price"))
        ELSE Ok(DictV([price |-> f.price]))

\* v.render() for whatever v is: a value that is no component has no
\* render attribute
RenderOf(v) ==
    IF IsInstance("Button", v) THEN Button_render(v)
    ELSE IF IsInstance("ListItem", v) THEN ListItem_render(v)
    ELSE IF IsInstance("Item", v) THEN Item_render(v)
    ELSE IF IsInstance("Thumbnail", v) THEN Thumbnail_render(v.Thumbnail)
    ELSE IF IsInstance("ItemThumbnail", v)
    THEN Thumbnail_render(v.ItemThumbnail)
    ELSE IF IsInstance("Profile", v) THEN Profile_render(v.Profile)
    ELSE IF IsInstance("ItemProfile", v)
    THEN ItemProfile_render(v.ItemProfile)
    ELSE IF IsInstance("ImageTitle", v) THEN ImageTitle_render(v.ImageTitle)
    ELSE IF IsInstance("ItemListSummary", v)
    THEN ItemListSummary_render(v.ItemListSummary)
    ELSE Raise(Err("AttributeError", "render"))

\* [x.render() for x in xs]
RenderAll(xs) == MapResults([i \in 1..Len(xs) |-> RenderOf(xs[i])])

---------------------------------------------------------------------------
(* Lists. *)

Contains(xs, x) == \E i \in 1..Len(xs) : xs[i] = x

\* xs without the element at position i (1-based)
DeleteAt(xs, i) ==
    [j \in 1..(Len(xs) - 1) |-> IF j < i THEN xs[j] ELSE xs[j + 1]]

FirstIndex(xs, x) ==
    CHOOSE i \in 1..Len(xs) :
        xs[i] = x /\ \A j \in 1..(i - 1) : xs[j] # x

\* list.remove(x) on a list that holds x: the first x goes
ListRemove(xs, x) == DeleteAt(xs, FirstIndex(xs, x))

\* whether list.pop(i) finds an element: Python counts a negative i from
\* the end
PopInRange(xs, i) == -Len(xs) <= i /\ i < Len(xs)
ListPop(xs, i) == DeleteAt(xs, IF i < 0 THEN Len(xs) + i + 1 ELSE i + 1)

\* the outcome of a method: the object afterwards, and what the call gave
Done(o, r) == [obj |-> o, err |-> r.err, ret |-> r.ret]

---------------------------------------------------------------------------
(* card.py: ParentCardComponent *)

\* __init__: buttons None becomes a new empty list
ParentCardComponent_init(buttons) ==
    IF IsNone(buttons) THEN <<>> ELSE buttons.list

\* validate: every entry of buttons is a Button
ParentCardComponent_validate(self) ==
    IF Len(self.buttons) > 0
    THEN FirstErr([i \in 1..Len(self.buttons) |->
                     validate_type("Button", <<self.buttons[i]>>, FALSE)])
    ELSE NoError

\* an add_button whose raw-argument form returns nothing and puts the new
\* Button in front
add_button_raw_in_front(self, call) ==
    IF Len(call.args) = 1 /\ IsInstance("Button", call.args[1])
    THEN Done([self EXCEPT !.buttons = Append(@, call.args[1])], Ok(Self))
    ELSE IF Len(call.args) = 0 /\ "button" \in DOMAIN call.kwargs
    THEN Done([self EXCEPT !.buttons = Append(@, call.kwargs["button"])],
              Ok(Self))
    ELSE LET button == Button(call)
         IN  IF Raised(button) THEN Done(self, button)
             ELSE Done([self EXCEPT !.buttons = <<button.ret>> \o @],
                       Ok(None))

\* add_button(self, *args, **kwargs)
add_button(self, call) ==
    IF Len(call.args) = 1 /\ IsInstance("Button", call.args[1])
    THEN Done([self EXCEPT !.buttons = Append(@, call.args[1])], Ok(Self))
    ELSE IF Len(call.args) = 0 /\ "button" \in DOMAIN call.kwargs
    THEN Done([self EXCEPT !.buttons = Append(@, call.kwargs["button"])],
              Ok(Self))
    ELSE LET button == Button(call)
         IN  IF Raised(button) THEN Done(self, button)
             ELSE Done([self EXCEPT !.buttons = Append(@, button.ret)],
                       Ok(Self))

\* remove_button(self, button): list.remove raises ValueError for a
\* button the list does not hold
remove_button(self, button) ==
    IF Contains(self.buttons, button)
    THEN Done([self EXCEPT !.buttons = ListRemove(@, button)], Ok(None))
    ELSE Done(self, Raise(Err("ValueError", "list.remove")))

\* "buttons": [button.render() for button in self.buttons]
\*            if self.buttons else None
RenderButtons(self) ==
    IF Len(self.buttons) > 0 THEN RenderAll(self.buttons) ELSE Ok(None)

\* x.render() if x else None
RenderIf(x) == IF Truthy(x) THEN RenderOf(x) ELSE Ok(None)

\* the response of a render whose parts were evaluated in order: the first
\* exception of a part, or the mapping without its None values
Response(parts, response) ==
    LET e == FirstErr([i \in 1..Len(parts) |-> parts[i].err])
    IN  IF e # NoError THEN Raise(e)
        ELSE Ok(DictV(remove_none_item(response)))

---------------------------------------------------------------------------
(* card.py: TextCardComponent *)

TextCardComponent(title, description, buttons) ==
    [cls |-> "TextCardComponent",
     buttons |-> ParentCardComponent_init(buttons),
     title |-> title, description |-> description]

\* the type checks alone, without the test that one of the two is set
TextCardComponent_validate_either(self) ==
    FirstErr(<<ParentCardComponent_validate(self),
               IF IsNone(self.title)
               THEN validate_str(<<self.description>>, FALSE)
               ELSE validate_str(<<self.title>>, FALSE)>>)

TextCardComponent_validate(self) ==
    FirstErr(<<ParentCardComponent_validate(self),
               IF IsNone(self.title) /\ IsNone(self.description)
               THEN Err("ValueError", "TextCard.title_description")
               ELSE NoError,
               IF IsNone(self.title)
               THEN validate_str(<<self.description>>, FALSE)
               ELSE validate_str(<<self.title>>, FALSE)>>)

\* a render that builds the response without validating first
TextCardComponent_render_unvalidated(self) ==
    LET buttons == RenderButtons(self)
    IN  Response(<<buttons>>,
                 [title |-> self.title, description |-> self.description,
                  buttons |-> buttons.ret])

TextCardComponent_render(self) ==
    LET e == TextCardComponent_validate(self)
        buttons == RenderButtons(self)
    IN  IF e # NoError THEN Raise(e)
        ELSE Response(<<buttons>>,
                      [title |-> self.title,
                       description |-> self.description,
                       buttons |-> buttons.ret])

---------------------------------------------------------------------------
(* card.py: BasicCardComponent *)

BasicCardComponent(thumbnail, title, description, buttons, forwardable) ==
    [cls |-> "BasicCardComponent",
     buttons |-> ParentCardComponent_init(buttons),
     thumbnail |-> thumbnail, title |-> title,
     description |-> description, forwardable |-> forwardable]

BasicCardComponent_validate(self) ==
    FirstErr(<<ParentCardComponent_validate(self),
               validate_type("Thumbnail", <<self.thumbnail>>, FALSE),
               validate_str(<<self.title, self.description>>, FALSE)>>)

BasicCardComponent_render(self) ==
    LET e == BasicCardComponent_validate(self)
        thumbnail == RenderOf(self.thumbnail)
        buttons == RenderButtons(self)
    IN  IF e # NoError THEN Raise(e)
        ELSE Response(<<thumbnail, buttons>>,
                      [thumbnail |-> thumbnail.ret,
                       title |-> self.title,
                       description |-> self.description,
                       buttons |-> buttons.ret,
                       forwardable |-> IF Truthy(self.forwardable)
                                       THEN self.forwardable ELSE None])

---------------------------------------------------------------------------
(* card.py: CommerceCardComponent *)

\* __init__ with its arguments a: a single Thumbnail becomes a list of one
CommerceCardComponent(a) ==
    [cls |-> "CommerceCardComponent",
     buttons |-> ParentCardComponent_init(a.buttons),
     price |-> a.price,
     thumbnails |-> IF IsInstance("Thumbnail", a.thumbnails)
                    THEN <<a.thumbnails>> ELSE a.thumbnails.list,
     title |-> a.title, description |-> a.description,
     currency |-> a.currency, discount |-> a.discount,
     discount_rate |-> a.discount_rate,
     discount_price |-> a.discount_price, profile |-> a.profile]

CommerceCardComponent_validate(self) ==
    FirstErr(<<ParentCardComponent_validate(self),
               validate_int(<<self.price>>, TRUE),
               FirstErr([i \in 1..Len(self.thumbnails) |->
                   validate_type("Thumbnail", <<self.thumbnails[i]>>,
                                 FALSE)]),
               validate_str(<<self.title, self.description>>, FALSE),
               IF Truthy(self.currency) /\ self.currency # StrV("won")
               THEN Err("AssertionError", "CommerceCard.currency")
               ELSE NoError,
               validate_int(<<self.discount, self.discount_price,
                              self.discount_rate, self.discount_price>>,
                            FALSE),
               validate_type("Profile", <<self.profile>>, FALSE)>>)

\* a render that gives discountPrice only next to a discount
CommerceCardComponent_render_tied(self) ==
    LET e == CommerceCardComponent_validate(self)
        thumbnails == RenderAll(self.thumbnails)
        profile == RenderIf(self.profile)
        buttons == RenderButtons(self)
    IN  IF e # NoError THEN Raise(e)
        ELSE Response(<<thumbnails, profile, buttons>>,
                      [price |-> self.price,
                       thumbnails |-> thumbnails.ret,
                       title |-> self.title,
                       description |-> self.description,
                       currency |-> self.currency,
                       discount |-> self.discount,
                       discountRate |-> self.discount_rate,
                       discountPrice |-> IF IsNone(self.discount) THEN None
                                         ELSE self.discount_price,
                       profile |-> profile.ret,
                       buttons |-> buttons.ret])

CommerceCardComponent_render(self) ==
    LET e == CommerceCardComponent_validate(self)
        thumbnails == RenderAll(self.thumbnails)
        profile == RenderIf(self.profile)
        buttons == RenderButtons(self)
    IN  IF e # NoError THEN Raise(e)
        ELSE Response(<<thumbnails, profile, buttons>>,
                      [price |-> self.price,
                       thumbnails |-> thumbnails.ret,
                       title |-> self.title,
                       description |-> self.description,
                       currency |-> self.currency,
                       discount |-> self.discount,
                       discountRate |-> self.discount_rate,
                       discountPrice |-> self.discount_price,
                       profile |-> profile.ret,
                       buttons |-> buttons.ret])

---------------------------------------------------------------------------
(* card.py: ListCardComponent *)

\* __init__: a str header becomes ListItem(title=header), items None a new
\* empty list
ListCardComponent(header, items, buttons, max_buttons, max_items) ==
    [cls |-> "ListCardComponent",
     buttons |-> ParentCardComponent_init(buttons),
     header |-> IF IsStr(header)
                THEN ListItem(Call(<<>>, [title |-> header])).ret
                ELSE header,
     items |-> IF IsNone(items) THEN <<>> ELSE items.list,
     max_buttons |-> max_buttons, max_items |-> max_items]

\* the item cap tested with >= where the code has >
ListCardComponent_validate_items_strict(self) ==
    FirstErr(<<ParentCardComponent_validate(self),
               IF Len(self.items) < 1
               THEN Err("AssertionError", "ListCard.items_min")
               ELSE NoError,
               IF Len(self.items) >= self.max_items
               THEN Err("AssertionError", "ListCard.max_items")
               ELSE NoError,
               IF Len(self.buttons) > self.max_buttons
               THEN Err("AssertionError", "ListCard.max_buttons")
               ELSE NoError,
               validate_type("ListItem", <<self.header>>, TRUE),
               validate_type("ListItem", self.items, FALSE)>>)

\* the button cap tested with >= where the code has >
ListCardComponent_validate_buttons_strict(self) ==
    FirstErr(<<ParentCardComponent_validate(self),
               IF Len(self.items) < 1
               THEN Err("AssertionError", "ListCard.items_min")
               ELSE NoError,
               IF Len(self.items) > self.max_items
               THEN Err("AssertionError", "ListCard.max_items")
               ELSE NoError,
               IF Len(self.buttons) >= self.max_buttons
               THEN Err("AssertionError", "ListCard.max_buttons")
               ELSE NoError,
               validate_type("ListItem", <<self.header>>, TRUE),
               validate_type("ListItem", self.items, FALSE)>>)

ListCardComponent_validate(self) ==
    FirstErr(<<ParentCardComponent_validate(self),
               IF Len(self.items) < 1
               THEN Err("AssertionError", "ListCard.items_min")
               ELSE NoError,
               IF Len(self.items) > self.max_items
               THEN Err("AssertionError", "ListCard.max_items")
               ELSE NoError,
               IF Len(self.buttons) > self.max_buttons
               THEN Err("AssertionError", "ListCard.max_buttons")
               ELSE NoError,
               validate_type("ListItem", <<self.header>>, TRUE),
               validate_type("ListItem", self.items, FALSE)>>)

ListCardComponent_render(self) ==
    LET e == ListCardComponent_validate(self)
        header == RenderOf(self.header)
        items == IF Len(self.items) > 0 THEN RenderAll(self.items)
                 ELSE Ok(None)
        buttons == RenderButtons(self)
    IN  IF e # NoError THEN Raise(e)
        ELSE Response(<<header, items, buttons>>,
                      [header |-> header.ret, items |-> items.ret,
                       buttons |-> buttons.ret])

\* an add_item whose raw-argument form keeps the title alone
ListCardComponent_add_item_title_only(self, call) ==
    IF Len(call.args) = 1 /\ IsInstance("ListItem", call.args[1])
    THEN Done([self EXCEPT !.items = Append(@, call.args[1])], Ok(Self))
    ELSE IF Len(call.args) = 0 /\ "item" \in DOMAIN call.kwargs
    THEN Done([self EXCEPT !.items = Append(@, call.kwargs["item"])],
              Ok(Self))
    ELSE LET item == ListItem(call)
             title == ListItem(Call(<<item.ret.ListItem.title>>, NoKw))
         IN  IF Raised(item) THEN Done(self, item)
             ELSE Done([self EXCEPT !.items = Append(@, title.ret)],
                       Ok(Self))

\* add_item(self, *args, **kwargs)
ListCardComponent_add_item(self, call) ==
    IF Len(call.args) = 1 /\ IsInstance("ListItem", call.args[1])
    THEN Done([self EXCEPT !.items = Append(@, call.args[1])], Ok(Self))
    ELSE IF Len(call.args) = 0 /\ "item" \in DOMAIN call.kwargs
    THEN Done([self EXCEPT !.items = Append(@, call.kwargs["item"])],
              Ok(Self))
    ELSE LET item == ListItem(call)
         IN  IF Raised(item) THEN Done(self, item)
             ELSE Done([self EXCEPT !.items = Append(@, item.ret)],
                       Ok(Self))

\* remove_item(self, item)
ListCardComponent_remove_item(self, item) ==
    IF ~IsInstance("ListItem", item)
    THEN Done(self, Raise(Err("AssertionError", "ListCard.remove_item")))
    ELSE IF ~Contains(self.items, item)
    THEN Done(self, Raise(Err("ValueError", "ListCard.remove_item")))
    ELSE Done([self EXCEPT !.items = ListRemove(@, item)], Ok(Self))

---------------------------------------------------------------------------
(* card.py: ItemCardComponent *)

\* __init__ with its arguments a
ItemCardComponent(a) ==
    [cls |-> "ItemCardComponent",
     buttons |-> ParentCardComponent_init(a.buttons),
     item_list |-> a.item_list.list, thumbnail |-> a.thumbnail,
     head |-> a.head, profile |-> a.profile,
     image_title |-> a.image_title,
     item_list_alignment |-> a.item_list_alignment,
     item_list_summary |-> a.item_list_summary,
     title |-> a.title, description |-> a.description,
     button_layout |-> a.button_layout]

ItemCardComponent_validate(self) ==
    FirstErr(<<ParentCardComponent_validate(self),
               FirstErr([i \in 1..Len(self.item_list) |->
                   validate_type("Item", <<self.item_list[i]>>, FALSE)]),
               validate_type("ItemThumbnail", <<self.thumbnail>>, FALSE),
               validate_type("ItemProfile", <<self.profile>>, FALSE),
               validate_type("ImageTitle", <<self.image_title>>, FALSE),
               validate_type("ItemListSummary", <<self.item_list_summary>>,
                             FALSE),
               validate_str(<<self.head, self.title, self.description,
                              self.button_layout>>, FALSE)>>)

ItemCardComponent_render(self) ==
    LET e == ItemCardComponent_validate(self)
        thumbnail == RenderIf(self.thumbnail)
        profile == RenderIf(self.profile)
        imageTitle == RenderIf(self.image_title)
        itemList == RenderAll(self.item_list)
        itemListSummary == RenderIf(self.item_list_summary)
        buttons == RenderButtons(self)
    IN  IF e # NoError THEN Raise(e)
        ELSE Response(<<thumbnail, profile, imageTitle, itemList,
                        itemListSummary, buttons>>,
                      [thumbnail |-> thumbnail.ret,
                       head |-> IF Truthy(self.head)
                                THEN DictV([title |-> self.head])
                                ELSE None,
                       profile |-> profile.ret,
                       imageTitle |-> imageTitle.ret,
                       itemList |-> itemList.ret,
                       itemListAlignment |-> self.item_list_alignment,
                       itemListSummary |-> itemListSummary.ret,
                       title |-> self.title,
                       description |-> self.description,
                       buttonLayout |-> self.button_layout,
                       buttons |-> buttons.ret])

\* add_item(self, *args, **kwargs): returns None.  With no single
\* positional argument an item keyword is appended first and Item(...) is
\* called all the same
ItemCardComponent_add_item(self, call) ==
    IF Len(call.args) = 1
    THEN IF IsInstance("Item", call.args[1])
         THEN Done([self EXCEPT !.item_list = Append(@, call.args[1])],
                   Ok(None))
         ELSE IF "description" \in DOMAIN call.kwargs
         THEN LET item == Item(call)
              IN  IF Raised(item) THEN Done(self, item)
                  ELSE Done([self EXCEPT
                               !.item_list = Append(@, item.ret)],
                            Ok(None))
         ELSE Done(self, Ok(None))
    ELSE LET first == IF "item" \in DOMAIN call.kwargs
                      THEN [self EXCEPT
                              !.item_list = Append(@, call.kwargs["item"])]
                      ELSE self
             item == Item(call)
         IN  IF Raised(item) THEN Done(first, item)
             ELSE Done([first EXCEPT !.item_list = Append(@, item.ret)],
                       Ok(None))

\* list.pop(i) of item_list: TypeError for an index that is no int,
\* IndexError for one out of range
ItemListPop(self, i) ==
    IF ~IsInt(i)
    THEN Done(self, Raise(Err("TypeError", "list.pop")))
    ELSE IF ~PopInRange(self.item_list, i.int)
    THEN Done(self, Raise(Err("IndexError", "list.pop")))
    ELSE Done([self EXCEPT !.item_list = ListPop(@, i.int)], Ok(None))

\* list.remove(x) of item_list
ItemListRemove(self, x) ==
    IF ~Contains(self.item_list, x)
    THEN Done(self, Raise(Err("ValueError", "list.remove")))
    ELSE Done([self EXCEPT !.item_list = ListRemove(@, x)], Ok(None))

\* remove_item(self, *args, **kwargs): args[0] is read first, whatever
\* the keywords are; returns None
ItemCardComponent_remove_item(self, call) ==
    IF Len(call.args) = 0
    THEN Done(self, Raise(Err("IndexError", "args[0]")))
    ELSE IF IsInstance("Item", call.args[1])
    THEN ItemListRemove(self, call.args[1])
    ELSE IF IsInt(call.args[1])
    THEN ItemListPop(self, call.args[1])
    ELSE IF "item" \in DOMAIN call.kwargs
    THEN ItemListRemove(self, call.kwargs["item"])
    ELSE IF "index" \in DOMAIN call.kwargs
    THEN ItemListPop(self, call.kwargs["index"])
    ELSE Done(self, Ok(None))

---------------------------------------------------------------------------
(* context.py *)

ContextParam(value, resolved_value) ==
    [ContextParam |-> [value |-> value, resolved_value |-> resolved_value]]

ContextParam_validate(v) ==
    validate_str(<<v.ContextParam.value, v.ContextParam.resolved_value>>,
                 FALSE)

\* a render that gives the resolved value
ContextParam_render_resolved(v) ==
    LET e == ContextParam_validate(v)
    IN  IF e # NoError THEN Raise(e) ELSE Ok(v.ContextParam.resolved_value)

\* ContextParam.render: validate, then the value alone
ContextParam_render(v) ==
    LET e == ContextParam_validate(v)
    IN  IF e # NoError THEN Raise(e) ELSE Ok(v.ContextParam.value)

\* data.get(key, default)
DictGet(data, key, default) ==
    IF key \in DOMAIN data.dict THEN data.dict[key] ELSE default

\* ContextParam.from_dict(data): a value without get raises AttributeError
ContextParam_from_dict(data) ==
    IF ~IsDict(data) THEN Raise(Err("AttributeError", "get"))
    ELSE Ok(ContextParam(DictGet(data, "value", StrV("")),
                         DictGet(data, "resolvedValue", StrV(""))))

\* Context.__init__: params or {}
Context(name, lifespan, ttl, params) ==
    [cls |-> "Context", name |-> name, lifespan |-> lifespan, ttl |-> ttl,
     params |-> IF Truthy(params) THEN params ELSE EmptyDict]

\* a from_dict that looks for the lifespan under the outbound key
Context_from_dict_lifeSpan(data) ==
    IF ~IsDict(data) THEN Raise(Err("AttributeError", "get"))
    ELSE LET raw == DictGet(data, "params", EmptyDict)
             param(key) == ContextParam_from_dict(raw.dict[key])
         IN  IF ~IsDict(raw) THEN Raise(Err("AttributeError", "items"))
             ELSE IF \E key \in DOMAIN raw.dict : Raised(param(key))
             THEN Raise(Err("AttributeError", "get"))
             ELSE Ok(Context(DictGet(data, "name", StrV("")),
                             DictGet(data, "lifeSpan", StrV("")),
                             DictGet(data, "ttl", None),
                             DictV([key \in DOMAIN raw.dict |->
                                       param(key).ret])))

\* Context.from_dict(data): missing keys give "", "", None and {}
Context_from_dict(data) ==
    IF ~IsDict(data) THEN Raise(Err("AttributeError", "get"))
    ELSE LET raw == DictGet(data, "params", EmptyDict)
             param(key) == ContextParam_from_dict(raw.dict[key])
         IN  IF ~IsDict(raw) THEN Raise(Err("AttributeError", "items"))
             ELSE IF \E key \in DOMAIN raw.dict : Raised(param(key))
             THEN Raise(Err("AttributeError", "get"))
             ELSE Ok(Context(DictGet(data, "name", StrV("")),
                             DictGet(data, "lifespan", StrV("")),
                             DictGet(data, "ttl", None),
                             DictV([key \in DOMAIN raw.dict |->
                                       param(key).ret])))

Context_validate(self) ==
    FirstErr(<<validate_str(<<self.name>>, FALSE),
               validate_int(<<self.lifespan, self.ttl>>, FALSE),
               validate_type("dict", <<self.params>>, FALSE)>>)

\* {key: param.render() if isinstance(param, ContextParam) else param
\*  for key, param in self.params.items()} if self.params else None
RenderParams(params) ==
    IF ~Truthy(params) THEN Ok(None)
    ELSE IF ~IsDict(params) THEN Raise(Err("AttributeError", "items"))
    ELSE LET d == params.dict
             r(key) == IF IsInstance("ContextParam", d[key])
                       THEN ContextParam_render(d[key]) ELSE Ok(d[key])
         IN  IF \E key \in DOMAIN d : Raised(r(key))
             THEN Raise(r(CHOOSE key \in DOMAIN d : Raised(r(key))).err)
             ELSE Ok(DictV([key \in DOMAIN d |-> r(key).ret]))

\* Context.render: the mapping is built without a call of validate
Context_render(self) ==
    LET params == RenderParams(self.params)
    IN  Response(<<params>>,
                 [name |-> self.name, lifeSpan |-> self.lifespan,
                  ttl |-> self.ttl, params |-> params.ret])

---------------------------------------------------------------------------
(* event.py *)

type_list == {"appUserId", "plusfriendUserKey", "botUserKey"}

EventUserParams == <<"id_type", "ID", "properties">>
EventUserDefaults == [properties |-> None]

\* EventUser(...): the new user, or TypeError when the call does not bind
EventUser(call) ==
    LET e == BindError(EventUserParams, EventUserDefaults, call, "EventUser")
        b(p) == Bound(EventUserParams, EventUserDefaults, call, p)
    IN  IF e # NoError THEN Raise(e)
        ELSE Ok([EventUser |-> [id_type |-> b("id_type"), id |-> b("ID"),
                                properties |-> b("properties")]])

EventUser_validate(v) ==
    LET f == v.EventUser
    IN  FirstErr(<<IF IsStr(f.id_type) /\ f.id_type.str \in type_list
                   THEN NoError
                   ELSE Err("AssertionError", "EventUser.id_type"),
                   validate_str(<<f.id>>, TRUE),
                   validate_type("dict", <<f.properties>>, FALSE)>>)

\* EventUser.render: the mapping is built without a call of validate
EventUser_render(v) ==
    LET f == v.EventUser
    IN  Ok(DictV(remove_none_item(
            [type |-> f.id_type, id |-> f.id, properties |-> f.properties])))

EndsWith(s, suffix) ==
    /\ Len(s) >= Len(suffix)
    /\ SubSeq(s, Len(s) - Len(suffix) + 1, Len(s)) = suffix

\* EventAPI.__init__ with its arguments a: the dev channel's bot id loses
\* its trailing "!", and None for users, data or params becomes empty
EventAPI(a) ==
    [cls |-> "EventAPI",
     bot_id |-> IF Truthy(a.is_devchannel) /\ EndsWith(a.bot_id.str, "!")
                THEN StrV(SubSeq(a.bot_id.str, 1, Len(a.bot_id.str) - 1))
                ELSE a.bot_id,
     api_key |-> a.api_key, event |-> a.event,
     users |-> IF IsNone(a.users) THEN <<>> ELSE a.users.list,
     data |-> IF IsNone(a.data) THEN EmptyDict ELSE a.data,
     params |-> IF IsNone(a.params) THEN EmptyDict ELSE a.params,
     option |-> a.option, is_devchannel |-> a.is_devchannel,
     max_user |-> a.max_user]

\* user.validate() for whatever user is
ValidateUser(user) ==
    IF IsInstance("EventUser", user) THEN EventUser_validate(user)
    ELSE Err("AttributeError", "validate")

\* the user cap tested with >= where the code has >
EventAPI_validate_strict(self) ==
    FirstErr(<<validate_str(<<self.bot_id, self.api_key, self.event>>, TRUE),
               IF Len(self.users) = 0
               THEN Err("AssertionError", "EventAPI.users_min")
               ELSE NoError,
               IF Len(self.users) >= self.max_user
               THEN Err("AssertionError", "EventAPI.max_user")
               ELSE NoError,
               FirstErr([i \in 1..Len(self.users) |->
                            ValidateUser(self.users[i])]),
               validate_type("dict",
                             <<self.params, self.option, self.data>>,
                             FALSE)>>)

\* a validate that looks at the first user alone
EventAPI_validate_first_user(self) ==
    FirstErr(<<validate_str(<<self.bot_id, self.api_key, self.event>>, TRUE),
               IF Len(self.users) = 0
               THEN Err("AssertionError", "EventAPI.users_min")
               ELSE NoError,
               IF Len(self.users) > self.max_user
               THEN Err("AssertionError", "EventAPI.max_user")
               ELSE NoError,
               IF Len(self.users) > 0 THEN ValidateUser(self.users[1])
               ELSE NoError,
               validate_type("dict",
                             <<self.params, self.option, self.data>>,
                             FALSE)>>)

EventAPI_validate(self) ==
    FirstErr(<<validate_str(<<self.bot_id, self.api_key, self.event>>, TRUE),
               IF Len(self.users) = 0
               THEN Err("AssertionError", "EventAPI.users_min")
               ELSE NoError,
               IF Len(self.users) > self.max_user
               THEN Err("AssertionError", "EventAPI.max_user")
               ELSE NoError,
               FirstErr([i \in 1..Len(self.users) |->
                            ValidateUser(self.users[i])]),
               validate_type("dict",
                             <<self.params, self.option, self.data>>,
                             FALSE)>>)

\* user.render() for whatever user is
RenderUser(user) ==
    IF IsInstance("EventUser", user) THEN EventUser_render(user)
    ELSE Raise(Err("AttributeError", "render"))

\* EventAPI.render: the event mapping, then validate, then the body
EventAPI_render(self) ==
    LET event == remove_none_item(
                    [name |-> self.event,
                     data |-> IF Truthy(self.data) THEN self.data
                              ELSE None])
        e == EventAPI_validate(self)
        user == IF Len(self.users) > 0
                THEN MapResults([i \in 1..Len(self.users) |->
                                    RenderUser(self.users[i])])
                ELSE Ok(None)
    IN  IF e # NoError THEN Raise(e)
        ELSE Response(<<user>>,
                      [event |-> DictV(event), user |-> user.ret,
                       params |-> IF Truthy(self.params) THEN self.params
                                  ELSE None,
                       option |-> self.option])

\* an add_user that puts a ready EventUser in front
add_user_in_front(self, call) ==
    IF Len(call.args) > 0 /\ IsInstance("EventUser", call.args[1])
    THEN Done([self EXCEPT !.users = <<call.args[1]>> \o @], Ok(Self))
    ELSE IF "user" \in DOMAIN call.kwargs /\ ~IsNone(call.kwargs["user"])
    THEN Done([self EXCEPT !.users = Append(@, call.kwargs["user"])],
              Ok(Self))
    ELSE LET user == EventUser(call)
         IN  IF Raised(user) THEN Done(self, user)
             ELSE Done([self EXCEPT !.users = Append(@, user.ret)],
                       Ok(Self))

\* add_user(self, *args, **kwargs)
add_user(self, call) ==
    IF Len(call.args) > 0 /\ IsInstance("EventUser", call.args[1])
    THEN Done([self EXCEPT !.users = Append(@, call.args[1])], Ok(Self))
    ELSE IF "user" \in DOMAIN call.kwargs /\ ~IsNone(call.kwargs["user"])
    THEN Done([self EXCEPT !.users = Append(@, call.kwargs["user"])],
              Ok(Self))
    ELSE LET user == EventUser(call)
         IN  IF Raised(user) THEN Done(self, user)
             ELSE Done([self EXCEPT !.users = Append(@, user.ret)],
                       Ok(Self))

\* str.startswith(prefix)
StartsWith(s, prefix) ==
    /\ Len(s) >= Len(prefix)
    /\ SubSeq(s, 1, Len(prefix)) = prefix

KakaoAK == "KakaoAK "

\* the mapping both headers properties return
Headers(api_key) ==
    DictV(("Content-Type" :> StrV("application/json"))
          @@ ("Authorization" :> api_key))

\* a headers that puts the prefix in front at every read
EventAPI_headers_prefix_each_read(self) ==
    IF ~IsStr(self.api_key)
    THEN Done(self, Raise(Err("AttributeError", "startswith")))
    ELSE LET api_key == StrV(KakaoAK \o self.api_key.str)
         IN  Done([self EXCEPT !.api_key = api_key], Ok(Headers(api_key)))

\* EventAPI.headers: the prefix is stored in self.api_key at the first read
EventAPI_headers(self) ==
    IF ~IsStr(self.api_key)
    THEN Done(self, Raise(Err("AttributeError", "startswith")))
    ELSE LET api_key == IF ~StartsWith(self.api_key.str, KakaoAK)
                        THEN StrV(KakaoAK \o self.api_key.str)
                        ELSE self.api_key
         IN  Done([self EXCEPT !.api_key = api_key], Ok(Headers(api_key)))

\* what an f-string makes of a value
Format(v) == IF IsStr(v) THEN v.str ELSE "None"

\* EventAPI.url
EventAPI_url(self) ==
    IF Truthy(self.is_devchannel)
    THEN Done(self, Ok(StrV("https://dev-bot-api.kakao.com/v2/bots/'"
                            \o Format(self.bot_id) \o "!'/talk")))
    ELSE Done(self, Ok(StrV("https://bot-api.kakao.com/v2/bots/"
                            \o Format(self.bot_id) \o "/talk")))

\* EventAPI.body
EventAPI_body(self) == Done(self, EventAPI_render(self))

\* CheckEventAPI(task_id, api_key)
CheckEventAPI(task_id, api_key) ==
    [cls |-> "CheckEventAPI", task_id |-> task_id, api_key |-> api_key]

CheckEventAPI_validate(self) ==
    validate_str(<<self.task_id, self.api_key>>, TRUE)

\* CheckEventAPI.render: the prefix goes to a local api_key
CheckEventAPI_render(self) ==
    LET e == CheckEventAPI_validate(self)
        api_key == IF ~StartsWith(self.api_key.str, KakaoAK)
                   THEN StrV(KakaoAK \o self.api_key.str)
                   ELSE self.api_key
    IN  IF e # NoError THEN Raise(e) ELSE Ok(Headers(api_key))

\* CheckEventAPI.url
CheckEventAPI_url(self) ==
    Done(self, Ok(StrV("https://bot-api.kakao.com/v2/tasks/"
                       \o Format(self.task_id))))

\* a headers that keeps the prefixed key in self.api_key, as EventAPI's
\* does
CheckEventAPI_headers_stored(self) ==
    LET r == CheckEventAPI_render(self)
    IN  IF Raised(r) THEN Done(self, r)
        ELSE Done([self EXCEPT !.api_key = r.ret.dict["Authorization"]], r)

\* CheckEventAPI.headers
CheckEventAPI_headers(self) == Done(self, CheckEventAPI_render(self))

\* datetime.datetime.fromtimestamp(timestamp): a number gives a datetime,
\* anything else raises TypeError
fromtimestamp(timestamp) ==
    IF IsInt(timestamp) THEN Ok([datetime |-> timestamp.int])
    ELSE Raise(Err("TypeError", "fromtimestamp"))

\* EventAPIResponse(task_id, status, message, timestamp)
EventAPIResponse(task_id, status, message, timestamp) ==
    [cls |-> "EventAPIResponse", task_id |-> task_id, status |-> status,
     message |-> message, timestamp |-> timestamp]

\* EventAPIResponse.from_dict(data): the arguments are evaluated before
\* the constructor is called
EventAPIResponse_from_dict(data) ==
    IF ~IsDict(data) THEN Raise(Err("AttributeError", "get"))
    ELSE LET timestamp == fromtimestamp(DictGet(data, "timestamp",
                                                StrV("")))
         IN  IF Raised(timestamp) THEN timestamp
             ELSE Ok(EventAPIResponse(DictGet(data, "task_id", StrV("")),
                                      DictGet(data, "status", StrV("")),
                                      DictGet(data, "message", StrV("")),
                                      timestamp.ret))

\* CheckEventAPIResponse(...), its arguments in the record a
CheckEventAPIResponse(a) ==
    [cls |-> "CheckEventAPIResponse", task_id |-> a.task_id,
     status |-> a.status, all_request_count |-> a.all_request_count,
     success_count |-> a.success_count, fail |-> a.fail]

\* CheckEventAPIResponse.from_dict(data)
CheckEventAPIResponse_from_dict(data) ==
    IF ~IsDict(data) THEN Raise(Err("AttributeError", "get"))
    ELSE Ok(CheckEventAPIResponse(
               [task_id |-> DictGet(data, "task_id", StrV("")),
                status |-> DictGet(data, "status", StrV("")),
                all_request_count |->
                    DictGet(data, "all_request_count", IntV(0)),
                success_count |-> DictGet(data, "success_count", IntV(0)),
                fail |-> DictGet(data, "fail", None)]))

\* SkillTemplate.is_empty: not bool(self.render())
is_empty(render) ==
    IF Raised(render) THEN render ELSE Ok(BoolV(~Truthy(render.ret)))

---------------------------------------------------------------------------
(* validate() and render() of the object at hand, by its class. *)

CardClasses ==
    {"TextCardComponent", "BasicCardComponent", "CommerceCardComponent",
     "ListCardComponent", "ItemCardComponent"}

IsCard(o) == o.cls \in CardClasses

Validate(o) ==
    CASE o.cls = "TextCardComponent" -> TextCardComponent_validate(o)
      [] o.cls = "BasicCardComponent" -> BasicCardComponent_validate(o)
      [] o.cls = "CommerceCardComponent" -> CommerceCardComponent_validate(o)
      [] o.cls = "ListCardComponent" -> ListCardComponent_validate(o)
      [] o.cls = "ItemCardComponent" -> ItemCardComponent_validate(o)
      [] o.cls = "Context" -> Context_validate(o)
      [] o.cls = "EventUser" -> EventUser_validate(o.user)
      [] o.cls = "EventAPI" -> EventAPI_validate(o)
      [] o.cls = "ContextParam" -> ContextParam_validate(o.param)
      [] o.cls = "CheckEventAPI" -> CheckEventAPI_validate(o)
      [] OTHER -> Err("AttributeError", "validate")

Render(o) ==
    CASE o.cls = "TextCardComponent" -> TextCardComponent_render(o)
      [] o.cls = "BasicCardComponent" -> BasicCardComponent_render(o)
      [] o.cls = "CommerceCardComponent" -> CommerceCardComponent_render(o)
      [] o.cls = "ListCardComponent" -> ListCardComponent_render(o)
      [] o.cls = "ItemCardComponent" -> ItemCardComponent_render(o)
      [] o.cls = "Context" -> Context_render(o)
      [] o.cls = "EventUser" -> EventUser_render(o.user)
      [] o.cls = "EventAPI" -> EventAPI_render(o)
      [] o.cls = "ContextParam" -> ContextParam_render(o.param)
      [] o.cls = "CheckEventAPI" -> CheckEventAPI_render(o)
      [] OTHER -> Raise(Err("AttributeError", "render"))

---------------------------------------------------------------------------
(* The values the constructors and the operations are given. *)

Junk == StrV("junk")

\* ListCardComponent's defaults (card.py, __init__)
DefaultMaxButtons == 2
DefaultMaxItems == 5

\* two buttons that validate, and one whose action lacks its field
RawB1 ==
    Call(<<StrV("b1"), StrV("message")>>, [message_text |-> StrV("m1")])
RawB2 ==
    Call(<<>>, [label |-> StrV("b2"), action |-> StrV("webLink"),
                web_link_url |-> StrV("u2")])
B1 == Button(RawB1).ret
B2 == Button(RawB2).ret
BadButton == Button(Call(<<StrV("b3"), StrV("webLink")>>, NoKw)).ret

\* the calls of add_button: a Button, button=... and the raw arguments,
\* and a call from which no Button can be built; a text card is also given
\* a second button, a basic card a value that is no Button
ButtonCalls(o) ==
    {Call(<<B1>>, NoKw), Call(<<>>, [button |-> B1]), RawB1,
     Call(<<Junk>>, NoKw)}
    \cup (IF o.cls = "TextCardComponent"
          THEN {Call(<<B2>>, NoKw), Call(<<>>, [button |-> B2]), RawB2}
          ELSE {})
    \cup (IF o.cls = "BasicCardComponent"
          THEN {Call(<<>>, [button |-> Junk])}
          ELSE {})

\* what remove_button may be given
ButtonArgs == {B1, B2, BadButton, Junk}

RawI1 == Call(<<StrV("i1")>>, NoKw)
RawI2 == Call(<<StrV("i2"), StrV("d2")>>, [image_url |-> StrV("u")])
I1 == ListItem(RawI1).ret
I2 == ListItem(RawI2).ret

\* the calls of ListCardComponent.add_item: a ListItem, item=... and the
\* raw arguments, and a call from which no ListItem can be built; a card
\* with a small max_items is also given a second item
ListItemCalls(o) ==
    {Call(<<I1>>, NoKw), Call(<<>>, [item |-> I1]), RawI1, Call(<<>>, NoKw)}
    \cup (IF o.max_items < DefaultMaxItems
          THEN {Call(<<I2>>, NoKw), Call(<<>>, [item |-> I2]), RawI2}
          ELSE {})

\* what ListCardComponent.remove_item may be given
ListItemArgs == {I1, I2, Junk, IntV(0)}

T1 == Item(Call(<<StrV("t1"), StrV("d1")>>, NoKw)).ret
T2 == Item(Call(<<StrV("t2"), StrV("d2")>>, NoKw)).ret

\* the calls of ItemCardComponent.add_item
ItemCalls ==
    {Call(<<T1>>, NoKw), Call(<<>>, [item |-> T1]),
     Call(<<StrV("t1"), StrV("d1")>>, NoKw),
     Call(<<StrV("t2")>>, [description |-> StrV("d2")]),
     Call(<<>>, [title |-> StrV("t2"), description |-> StrV("d2")]),
     Call(<<StrV("t1")>>, NoKw),
     Call(<<T2>>, [description |-> StrV("d1")]),
     Call(<<>>, [item |-> Junk])}

\* the calls of ItemCardComponent.remove_item
ItemRemoveCalls ==
    {Call(<<T1>>, NoKw), Call(<<T2>>, NoKw), Call(<<Junk>>, NoKw),
     Call(<<IntV(0)>>, NoKw), Call(<<IntV(1)>>, NoKw),
     Call(<<IntV(-1)>>, NoKw),
     Call(<<>>, [item |-> T1]), Call(<<>>, [index |-> IntV(0)]),
     Call(<<Junk>>, [item |-> T1]), Call(<<Junk>>, [index |-> IntV(0)])}

U1 == EventUser(Call(<<StrV("appUserId"), StrV("id1")>>, NoKw)).ret
U2 ==
    EventUser(Call(<<StrV("botUserKey"), StrV("id2")>>,
                   [properties |-> DictV([grade |-> StrV("vip")])])).ret
BadUser == EventUser(Call(<<StrV("kakaoId"), StrV("id3")>>, NoKw)).ret

\* users that fail their own validate: no id, an id that is no str,
\* properties that are no mapping
NoIdUser == EventUser(Call(<<StrV("appUserId"), None>>, NoKw)).ret
IntIdUser == EventUser(Call(<<StrV("appUserId"), IntV(5)>>, NoKw)).ret
BadPropertiesUser ==
    EventUser(Call(<<StrV("appUserId"), StrV("id4"), Junk>>, NoKw)).ret

\* EventAPI's default (event.py, __init__)
DefaultMaxUser == 100

\* the calls of EventAPI.add_user: an EventUser, user=..., the raw
\* arguments, a user with a wrong id_type and user=None; the plain
\* EventAPI is also given a second user and the other failing users
UserCalls(o) ==
    {Call(<<U1>>, NoKw), Call(<<>>, [user |-> U1]),
     Call(<<StrV("appUserId"), StrV("id1")>>, NoKw),
     Call(<<BadUser>>, NoKw), Call(<<>>, [user |-> None])}
    \cup (IF ~Truthy(o.is_devchannel) /\ IsNone(o.option)
              /\ o.max_user < DefaultMaxUser
          THEN {Call(<<U2>>, NoKw),
                Call(<<>>, [id_type |-> StrV("botUserKey"),
                            ID |-> StrV("id2"),
                            properties |-> DictV([grade |-> StrV("vip")])]),
                Call(<<NoIdUser>>, NoKw), Call(<<>>, [user |-> IntIdUser]),
                Call(<<BadPropertiesUser>>, NoKw)}
          ELSE {})

Th1 == Thumbnail(StrV("https://img/1.jpg"))
P1 == Profile(StrV("shop"), None)

\* the cards a TextCardComponent is constructed as
TextCards ==
    {TextCardComponent(t, d, None) :
        t \in {None, StrV("title"), IntV(7)},
        d \in {None, StrV("text"), IntV(8)}}
    \cup {TextCardComponent(StrV("title"), None, b) :
            b \in {ListV(<<BadButton>>), ListV(<<Junk>>)}}

BasicCards ==
    {BasicCardComponent(th, t, None, None, f) :
        th \in {Th1, None, Junk}, t \in {None, StrV("title"), IntV(7)},
        f \in {BoolV(FALSE), BoolV(TRUE)}}

\* a CommerceCardComponent that validates, and its arguments varied one
\* group at a time
CommerceArgs ==
    [price |-> IntV(10999), thumbnails |-> ListV(<<Th1>>), title |-> None,
     description |-> None, buttons |-> None, profile |-> None,
     currency |-> None, discount |-> None, discount_rate |-> None,
     discount_price |-> None]

CommerceCards ==
    {CommerceCardComponent(a) : a \in
        {[CommerceArgs EXCEPT !.discount = d, !.discount_rate = r,
                              !.discount_price = p] :
            d \in {None, IntV(1000)}, r \in {None, IntV(10)},
            p \in {None, IntV(9000)}}
        \cup {[CommerceArgs EXCEPT !.currency = c] :
                c \in {StrV("won"), StrV("usd"), StrV(""), IntV(0)}}
        \cup {[CommerceArgs EXCEPT !.price = x, !.thumbnails = th] :
                x \in {None, IntV(10999), StrV("10999")},
                th \in {Th1, ListV(<<>>), ListV(<<Junk>>)}}
        \cup {[CommerceArgs EXCEPT !.profile = x, !.title = t] :
                x \in {P1, Junk}, t \in {StrV("title"), IntV(7)}}
        \cup {[CommerceArgs EXCEPT !.discount = StrV("1000")]}}

ListCards ==
    {ListCardComponent(StrV("header"), None, None, DefaultMaxButtons,
                       DefaultMaxItems),
     ListCardComponent(I1, ListV(<<I2>>), None, 1, 2),
     ListCardComponent(None, ListV(<<Junk>>), ListV(<<BadButton>>), 1, 2)}

ItemArgs ==
    [item_list |-> ListV(<<>>), thumbnail |-> None, head |-> None,
     profile |-> None, image_title |-> None, item_list_alignment |-> None,
     item_list_summary |-> None, title |-> None, description |-> None,
     buttons |-> None, button_layout |-> None]

ItemCards ==
    {ItemCardComponent(a) : a \in
        {ItemArgs,
         [ItemArgs EXCEPT
            !.item_list = ListV(<<T1>>),
            !.thumbnail = ItemThumbnail(StrV("https://img/2.jpg")),
            !.head = StrV("head"),
            !.image_title = ImageTitle(StrV("it"), None),
            !.item_list_alignment = StrV("right"),
            !.item_list_summary = ItemListSummary(IntV(10000)),
            !.title = StrV("title"), !.description = StrV("text"),
            !.button_layout = StrV("vertical")],
         [ItemArgs EXCEPT
            !.item_list = ListV(<<Junk>>),
            !.profile = ItemProfile(StrV("pf"), None)],
         [ItemArgs EXCEPT
            !.item_list = ListV(<<T1>>), !.head = IntV(7)]}}

Contexts ==
    {Context(n, l, t, p) :
        n \in {StrV("ctx"), IntV(1)}, l \in {IntV(1), StrV("")},
        t \in {None, IntV(600), StrV("600")},
        p \in {None, DictV([key |-> ContextParam(StrV("v"), StrV("r"))]),
               DictV([key |-> StrV("plain")])}}

ContextParams ==
    {[cls |-> "ContextParam", param |-> ContextParam(v, r)] :
        v \in {StrV("v"), StrV(""), None, IntV(1)},
        r \in {StrV("r"), StrV("s"), StrV(""), None, IntV(2)}}

\* the inbound mapping of a context: lifespan under "lifespan", each
\* ContextParam as {"value": ..., "resolvedValue": ...}
InboundShape(c) ==
    DictV([name |-> c.name, lifespan |-> c.lifespan, ttl |-> c.ttl,
           params |-> DictV([key \in DOMAIN c.params.dict |->
               DictV([value |-> c.params.dict[key].ContextParam.value,
                      resolvedValue |->
                        c.params.dict[key].ContextParam.resolved_value])])])

\* contexts with a str name, an int lifespan, an int ttl or none, and
\* ContextParams for params
TypedContexts ==
    {Context(n, l, t, p) :
        n \in {StrV("ctx"), StrV("")}, l \in {IntV(1), IntV(0)},
        t \in {None, IntV(600)},
        p \in {None,
               DictV([key |-> ContextParam(StrV("v"), StrV("r"))]),
               DictV([k1 |-> ContextParam(StrV("v"), StrV("r")),
                      k2 |-> ContextParam(StrV("w"), StrV(""))])}}

\* the mappings Context.from_dict is given: the inbound mappings of the
\* typed contexts, the same without their ttl key, and mappings with keys
\* missing or a param that is no mapping
Payloads ==
    {[cls |-> "dict", data |-> d] : d \in
        {InboundShape(c) : c \in TypedContexts}
        \cup {DictV([key \in {"name", "lifespan", "params"} |->
                       InboundShape(c).dict[key]]) :
                 c \in {x \in TypedContexts : IsNone(x.ttl)}}
        \cup {EmptyDict, DictV([name |-> StrV("ctx")]),
              DictV([params |-> DictV([key |-> StrV("plain")])]),
              DictV([params |-> DictV([key |-> EmptyDict])])}}

\* the keys of a mapping cut down to keys
Restrict(data, keys) ==
    DictV([key \in keys \cap DOMAIN data.dict |-> data.dict[key]])

\* every mapping that holds some of the keys of data
SubMappings(data) == {Restrict(data, keys) : keys \in SUBSET DOMAIN data.dict}

\* inbound mappings with every expected key, one for each from_dict
ContextInbound ==
    InboundShape(Context(StrV("ctx"), IntV(1), IntV(600),
                         DictV([key |-> ContextParam(StrV("v"),
                                                     StrV("r"))])))

ContextParamInbound == DictV([value |-> StrV("v"), resolvedValue |-> StrV("r")])

EventAPIResponseInbound ==
    DictV([task_id |-> StrV("task"), status |-> StrV("SUCCESS"),
           message |-> StrV("ok"), timestamp |-> IntV(1600)])

CheckEventAPIResponseInbound ==
    DictV([task_id |-> StrV("task"), status |-> StrV("1 FAIL"),
           all_request_count |-> IntV(2), success_count |-> IntV(1),
           fail |-> DictV([count |-> IntV(1)])])

\* the mappings the other from_dict methods are given: every part of the
\* four full mappings
PartPayloads ==
    {[cls |-> "dict", data |-> d] : d \in
        SubMappings(ContextInbound) \cup SubMappings(ContextParamInbound)
        \cup SubMappings(EventAPIResponseInbound)
        \cup SubMappings(CheckEventAPIResponseInbound)}

EventUsers ==
    {[cls |-> "EventUser",
      user |-> EventUser(Call(<<t, i, p>>, NoKw)).ret] :
        t \in {StrV("appUserId"), StrV("kakaoId")},
        i \in {StrV("id1"), None},
        p \in {None, DictV([grade |-> StrV("vip")]), Junk}}

EventArgs ==
    [bot_id |-> StrV("bot"), api_key |-> StrV("key"),
     event |-> StrV("event"), users |-> None, data |-> None,
     params |-> None, option |-> None, is_devchannel |-> BoolV(FALSE),
     max_user |-> 2]

EventAPIs ==
    {EventAPI(a) : a \in
        {EventArgs,
         [EventArgs EXCEPT !.max_user = 1,
                           !.data = DictV([k |-> StrV("v")]),
                           !.params = DictV([p |-> StrV("q")]),
                           !.option = EmptyDict],
         [EventArgs EXCEPT !.bot_id = StrV("bot!"),
                           !.is_devchannel = BoolV(TRUE),
                           !.api_key = StrV("KakaoAK key")],
         [EventArgs EXCEPT !.event = None, !.users = ListV(<<Junk>>)],
         [EventArgs EXCEPT !.option = Junk],
         [EventArgs EXCEPT !.max_user = DefaultMaxUser],
         [EventArgs EXCEPT !.api_key = None]}}

CheckEventAPIs ==
    {CheckEventAPI(task_id, api_key) :
        task_id \in {StrV("task"), None},
        api_key \in {StrV("key"), StrV("KakaoAK key"), StrV("KakaoAK"),
                     IntV(7)}}

---------------------------------------------------------------------------
(* The state machine: obj is the object, last the latest call on it with   *)
(* its outcome.                                                            *)

NoCall == Call(<<>>, NoKw)

Called(op, call, r) ==
    [op |-> op, call |-> call, err |-> r.err, ret |-> r.ret]

\* defaults made once, when the constructor is defined (buttons=[]), and so
\* bound to every instance built without a list
SharedDefaults_made_once(o) ==
    IF o.cls = "ListCardComponent" THEN {"buttons", "items"}
    ELSE IF o.cls \in CardClasses THEN {"buttons"}
    ELSE IF o.cls = "EventAPI" THEN {"users"}
    ELSE {}

\* The owned collections that are one and the same Python object in every
\* instance built without passing them.  The constructors bind a new list
\* or dict at each call (`if buttons is None: buttons = []`), so there are
\* none.
SharedDefaults(o) == {}

Init ==
    /\ obj \in TextCards \cup BasicCards \cup CommerceCards \cup ListCards
               \cup ItemCards \cup Contexts \cup EventUsers \cup EventAPIs
               \cup ContextParams \cup Payloads \cup CheckEventAPIs
               \cup PartPayloads
    /\ last = Called("init", NoCall, Ok(None))
    /\ twin = obj
    /\ shared = {f \in SharedDefaults(obj) : obj[f] = <<>>}

\* What a call on obj does to twin: a collection the two share changes in
\* both, everything else of twin stays
TwinStep ==
    /\ twin' = [f \in DOMAIN twin |->
                   IF f \in shared THEN obj'[f] ELSE twin[f]]
    /\ shared' = shared

\* card.add_button(...)
AddButton ==
    /\ IsCard(obj)
    /\ Len(obj.buttons) < MaxButtonsLen
    /\ \E call \in ButtonCalls(obj) :
         LET r == add_button(obj, call)
         IN  /\ obj' = r.obj
             /\ last' = Called("add_button", call, r)
    /\ TwinStep

\* card.remove_button(button)
RemoveButton ==
    /\ IsCard(obj)
    /\ \E button \in ButtonArgs :
         LET r == remove_button(obj, button)
         IN  /\ obj' = r.obj
             /\ last' = Called("remove_button", Call(<<button>>, NoKw), r)
    /\ TwinStep

\* list_card.add_item(...)
ListAddItem ==
    /\ obj.cls = "ListCardComponent"
    /\ Len(obj.items) < obj.max_items + ItemsOverCap
    /\ \E call \in ListItemCalls(obj) :
         LET r == ListCardComponent_add_item(obj, call)
         IN  /\ obj' = r.obj
             /\ last' = Called("add_item", call, r)
    /\ TwinStep

\* list_card.remove_item(item)
ListRemoveItem ==
    /\ obj.cls = "ListCardComponent"
    /\ \E item \in ListItemArgs :
         LET r == ListCardComponent_remove_item(obj, item)
         IN  /\ obj' = r.obj
             /\ last' = Called("remove_item", Call(<<item>>, NoKw), r)
    /\ TwinStep

\* item_card.add_item(...)
ItemAddItem ==
    /\ obj.cls = "ItemCardComponent"
    /\ Len(obj.item_list) < MaxItemListLen
    /\ \E call \in ItemCalls :
         LET r == ItemCardComponent_add_item(obj, call)
         IN  /\ obj' = r.obj
             /\ last' = Called("add_item", call, r)
    /\ TwinStep

\* item_card.remove_item(...)
ItemRemoveItem ==
    /\ obj.cls = "ItemCardComponent"
    /\ \E call \in ItemRemoveCalls :
         LET r == ItemCardComponent_remove_item(obj, call)
         IN  /\ obj' = r.obj
             /\ last' = Called("remove_item", call, r)
    /\ TwinStep

\* event_api.add_user(...)
AddUser ==
    /\ obj.cls = "EventAPI"
    /\ Len(obj.users) < MaxUsersLen
    /\ \E call \in UserCalls(obj) :
         LET r == add_user(obj, call)
         IN  /\ obj' = r.obj
             /\ last' = Called("add_user", call, r)
    /\ TwinStep

\* Context.from_dict(data): the mapping at hand becomes the context built
\* from it
ContextFromDict ==
    /\ obj.cls = "dict"
    /\ LET r == Context_from_dict(obj.data)
       IN  /\ obj' = IF Raised(r) THEN obj ELSE r.ret
           /\ last' = Called("from_dict", Call(<<obj.data>>, NoKw),
                             IF Raised(r) THEN r ELSE Ok(New))
    /\ TwinStep

\* ContextParam.from_dict(data), EventAPIResponse.from_dict(data) or
\* CheckEventAPIResponse.from_dict(data) on the mapping at hand
OtherFromDict ==
    /\ obj.cls = "dict"
    /\ \E cls \in {"ContextParam", "EventAPIResponse",
                   "CheckEventAPIResponse"} :
         LET param == ContextParam_from_dict(obj.data)
             r == CASE cls = "ContextParam" ->
                         IF Raised(param) THEN param
                         ELSE Ok([cls |-> "ContextParam",
                                  param |-> param.ret])
                    [] cls = "EventAPIResponse" ->
                         EventAPIResponse_from_dict(obj.data)
                    [] cls = "CheckEventAPIResponse" ->
                         CheckEventAPIResponse_from_dict(obj.data)
         IN  /\ obj' = IF Raised(r) THEN obj ELSE r.ret
             /\ last' = Called(cls \o ".from_dict",
                               Call(<<obj.data>>, NoKw),
                               IF Raised(r) THEN r ELSE Ok(New))
    /\ TwinStep

\* obj.validate()
DoValidate ==
    /\ obj' = obj
    /\ last' = Called("validate", NoCall,
                      IF Validate(obj) = NoError THEN Ok(None)
                      ELSE Raise(Validate(obj)))
    /\ TwinStep

\* obj.render()
DoRender ==
    /\ obj' = obj
    /\ last' = Called("render", NoCall, Render(obj))
    /\ TwinStep

\* obj.headers
ReadHeaders ==
    /\ obj.cls \in {"EventAPI", "CheckEventAPI"}
    /\ LET r == IF obj.cls = "EventAPI" THEN EventAPI_headers(obj)
                ELSE CheckEventAPI_headers(obj)
       IN  /\ obj' = r.obj
           /\ last' = Called("headers", NoCall, r)
    /\ TwinStep

\* obj.url
ReadUrl ==
    /\ obj.cls \in {"EventAPI", "CheckEventAPI"}
    /\ LET r == IF obj.cls = "EventAPI" THEN EventAPI_url(obj)
                ELSE CheckEventAPI_url(obj)
       IN  /\ obj' = r.obj
           /\ last' = Called("url", NoCall, r)
    /\ TwinStep

\* event_api.body
ReadBody ==
    /\ obj.cls = "EventAPI"
    /\ LET r == EventAPI_body(obj)
       IN  /\ obj' = r.obj
           /\ last' = Called("body", NoCall, r)
    /\ TwinStep

\* obj.is_empty, of the two SkillTemplate classes
ReadIsEmpty ==
    /\ obj.cls \in {"Context", "ContextParam"}
    /\ obj' = obj
    /\ last' = Called("is_empty", NoCall, is_empty(Render(obj)))
    /\ TwinStep

Next ==
    \/ AddButton
    \/ RemoveButton
    \/ ListAddItem
    \/ ListRemoveItem
    \/ ItemAddItem
    \/ ItemRemoveItem
    \/ AddUser
    \/ ContextFromDict
    \/ OtherFromDict
    \/ DoValidate
    \/ DoRender
    \/ ReadHeaders
    \/ ReadUrl
    \/ ReadBody
    \/ ReadIsEmpty

Spec == Init /\ [][Next]_vars

---------------------------------------------------------------------------
(* The properties. *)

\* C1: on each of the five card components, however it was constructed and
\* whatever buttons and items were added and removed, a validate() that
\* raises means render() raises that same error and returns no mapping.
C1_RenderRaisesWhatValidateRaises ==
    (IsCard(obj) /\ Validate(obj) # NoError) =>
        /\ Render(obj) = Raise(Validate(obj))
        /\ last.op = "render" =>
             (last.err = Validate(obj) /\ last.ret = NoReturn)

\* a list card grown past max_items has been rendered, and render raised
C1_Witness ==
    /\ obj.cls = "ListCardComponent"
    /\ Len(obj.items) = DefaultMaxItems + 1
    /\ last.op = "render"
    /\ last.err = Err("AssertionError", "ListCard.max_items")

\* C2: for a Context and for an EventUser, a render() of an object whose
\* validate() raises ends with that same error and returns no mapping.
C2_ContextAndEventUserRenderValidates ==
    (/\ obj.cls \in {"Context", "EventUser"}
     /\ last.op = "render"
     /\ Validate(obj) # NoError) =>
        (last.err = Validate(obj) /\ last.ret = NoReturn)

\* C3: a mapping returned by render() of a card, a Context, an EventUser
\* or an EventAPI has no key whose value is None; a None field, an empty
\* buttons list, an empty params or data mapping and a false forwardable
\* flag have no key at all.
C3_RenderHasNoNoneValue ==
    LET r == Render(obj)
        d == r.ret.dict
        absent(field, key) == IsNone(obj[field]) => key \notin DOMAIN d
    IN  (/\ obj.cls \in CardClasses \cup {"Context", "EventUser", "EventAPI"}
         /\ ~Raised(r)) =>
          /\ IsDict(r.ret)
          /\ \A key \in DOMAIN d : d[key] # None
          /\ (last.op = "render" => last.ret = r.ret)
          /\ (IsCard(obj) /\ obj.buttons = <<>>) => "buttons" \notin DOMAIN d
          /\ obj.cls \in {"TextCardComponent", "BasicCardComponent",
                          "CommerceCardComponent", "ItemCardComponent"} =>
                (absent("title", "title")
                   /\ absent("description", "description"))
          /\ obj.cls = "BasicCardComponent" =>
                (~Truthy(obj.forwardable) => "forwardable" \notin DOMAIN d)
          /\ obj.cls = "CommerceCardComponent" =>
                (/\ absent("currency", "currency")
                 /\ absent("discount", "discount")
                 /\ absent("discount_rate", "discountRate")
                 /\ absent("discount_price", "discountPrice")
                 /\ absent("profile", "profile"))
          /\ obj.cls = "ItemCardComponent" =>
                (/\ absent("thumbnail", "thumbnail")
                 /\ absent("head", "head")
                 /\ absent("profile", "profile")
                 /\ absent("image_title", "imageTitle")
                 /\ absent("item_list_alignment", "itemListAlignment")
                 /\ absent("item_list_summary", "itemListSummary")
                 /\ absent("button_layout", "buttonLayout"))
          /\ obj.cls = "Context" =>
                (/\ absent("ttl", "ttl")
                 /\ obj.params = EmptyDict => "params" \notin DOMAIN d)
          /\ obj.cls = "EventUser" =>
                (IsNone(obj.user.EventUser.properties) =>
                    "properties" \notin DOMAIN d)
          /\ obj.cls = "EventAPI" =>
                (/\ absent("option", "option")
                 /\ obj.params = EmptyDict => "params" \notin DOMAIN d
                 /\ obj.data = EmptyDict =>
                      "data" \notin DOMAIN d["event"].dict)

\* a basic card without description, buttons or forwardable flag has been
\* rendered to a mapping
C3_Witness ==
    /\ obj.cls = "BasicCardComponent"
    /\ IsNone(obj.description)
    /\ obj.buttons = <<>>
    /\ ~Truthy(obj.forwardable)
    /\ last.op = "render"
    /\ last.err = NoError
    /\ IsDict(last.ret)

\* C4: a TextCardComponent whose title and description are both None
\* fails validate() and render(); one (with valid buttons) that has a str
\* for exactly one of the two and None for the other renders to a mapping
\* with that field and its value and without the other field's key.
C4_TextCardTitleOrDescription ==
    LET r == Render(obj)
        d == r.ret.dict
        buttonsValid ==
            \A i \in 1..Len(obj.buttons) :
                /\ IsInstance("Button", obj.buttons[i])
                /\ Button_validate(obj.buttons[i]) = NoError
    IN  obj.cls = "TextCardComponent" =>
          /\ (IsNone(obj.title) /\ IsNone(obj.description)) =>
                (/\ Validate(obj) # NoError
                 /\ Raised(r)
                 /\ last.op \in {"validate", "render"} =>
                      (last.err # NoError /\ last.ret = NoReturn))
          /\ (IsStr(obj.title) /\ IsNone(obj.description) /\ buttonsValid) =>
                (/\ ~Raised(r)
                 /\ "title" \in DOMAIN d
                 /\ d["title"] = obj.title
                 /\ "description" \notin DOMAIN d
                 /\ last.op = "render" => last.ret = r.ret)
          /\ (IsNone(obj.title) /\ IsStr(obj.description) /\ buttonsValid) =>
                (/\ ~Raised(r)
                 /\ "description" \in DOMAIN d
                 /\ d["description"] = obj.description
                 /\ "title" \notin DOMAIN d
                 /\ last.op = "render" => last.ret = r.ret)

\* a text card with only a description has been rendered to a mapping
C4_Witness ==
    /\ obj.cls = "TextCardComponent"
    /\ IsNone(obj.title)
    /\ IsStr(obj.description)
    /\ last.op = "render"
    /\ last.err = NoError
    /\ "description" \in DOMAIN last.ret.dict

\* C5: a ListCardComponent whose header and items are ListItems, whose
\* buttons are Buttons and whose button count is within max_buttons
\* validates if and only if 1 <= len(items) <= max_items (5 by default);
\* when every one of those elements is itself valid, render() succeeds
\* under the same condition.
C5_ListCardItemCount ==
    LET wellTyped ==
            /\ IsInstance("ListItem", obj.header)
            /\ \A i \in 1..Len(obj.items) :
                   IsInstance("ListItem", obj.items[i])
            /\ \A i \in 1..Len(obj.buttons) :
                   IsInstance("Button", obj.buttons[i])
            /\ Len(obj.buttons) <= obj.max_buttons
        elementsValid ==
            /\ ListItem_validate(obj.header) = NoError
            /\ \A i \in 1..Len(obj.items) :
                   ListItem_validate(obj.items[i]) = NoError
            /\ \A i \in 1..Len(obj.buttons) :
                   Button_validate(obj.buttons[i]) = NoError
        inRange == 1 <= Len(obj.items) /\ Len(obj.items) <= obj.max_items
    IN  (obj.cls = "ListCardComponent" /\ wellTyped) =>
          /\ (Validate(obj) = NoError) <=> inRange
          /\ ~inRange => Raised(Render(obj))
          /\ elementsValid => (~Raised(Render(obj)) <=> inRange)
          /\ last.op = "validate" => ((last.err = NoError) <=> inRange)
          /\ (last.op = "render" /\ elementsValid) =>
                ((last.err = NoError) <=> inRange)

\* the default list card holds exactly five items and has been validated
\* with success
C5_Witness ==
    /\ obj.cls = "ListCardComponent"
    /\ obj.max_items = DefaultMaxItems
    /\ Len(obj.items) = DefaultMaxItems
    /\ last.op = "validate"
    /\ last.err = NoError

\* C6: a ListCardComponent with more buttons than max_buttons (2 by
\* default) fails validate(); with at most max_buttons buttons, none
\* included, validate() never fails on the button count.
C6_ListCardButtonCap ==
    LET capError == Err("AssertionError", "ListCard.max_buttons")
    IN  obj.cls = "ListCardComponent" =>
          /\ Len(obj.buttons) > obj.max_buttons =>
                (/\ Validate(obj) # NoError
                 /\ last.op = "validate" => last.err # NoError)
          /\ Len(obj.buttons) <= obj.max_buttons =>
                (/\ Validate(obj) # capError
                 /\ last.op = "validate" => last.err # capError)
          /\ (/\ Len(obj.buttons) > obj.max_buttons
              /\ \A i \in 1..Len(obj.buttons) :
                     IsInstance("Button", obj.buttons[i])
              /\ 1 <= Len(obj.items)
              /\ Len(obj.items) <= obj.max_items) =>
                Validate(obj) = capError

\* the default list card holds three buttons and an item, and validate()
\* has failed on the button count
C6_Witness ==
    /\ obj.cls = "ListCardComponent"
    /\ obj.max_buttons = DefaultMaxButtons
    /\ Len(obj.buttons) = DefaultMaxButtons + 1
    /\ last.op = "validate"
    /\ last.err = Err("AssertionError", "ListCard.max_buttons")

\* C7: on a ListCardComponent, add_item with a ready ListItem, with
\* item= that ListItem and with the raw field values the ListItem was
\* built from all succeed from the same card, leave the items list with
\* that one entry more at the end, and give cards that render identically.
C7_ListCardAddItemDualMode ==
    [][(obj.cls = "ListCardComponent" /\ last'.op = "add_item") =>
         \A raw \in {RawI1, RawI2} :
            LET item == ListItem(raw).ret
                forms == {Call(<<item>>, NoKw), Call(<<>>, [item |-> item]),
                          raw}
            IN  last'.call \in forms =>
                  /\ last'.err = NoError
                  /\ obj'.items = Append(obj.items, item)
                  /\ \A other \in forms :
                       LET o == ListCardComponent_add_item(obj, other)
                       IN  /\ o.err = NoError
                           /\ o.obj.items = obj'.items
                           /\ Render(o.obj) = Render(obj')]_vars

\* add_item was called with raw field values on a card that held items,
\* and the new ListItem is the last one
C7_Witness ==
    /\ obj.cls = "ListCardComponent"
    /\ last.op = "add_item"
    /\ last.call = RawI2
    /\ last.err = NoError
    /\ Len(obj.items) >= 2
    /\ obj.items[Len(obj.items)] = I2
    /\ ~Raised(Render(obj))

\* C8: on every card, add_button with a ready Button, positional or as
\* button=, and add_button with the raw arguments that Button was built
\* from all do what building the Button and appending it to buttons does:
\* one entry more at the end, the rest of the card as it was, and the card
\* itself returned.
C8_AddButtonDualMode ==
    [][(IsCard(obj) /\ last'.op = "add_button") =>
         \A raw \in {RawB1, RawB2} :
            LET button == Button(raw).ret
                forms == {Call(<<button>>, NoKw),
                          Call(<<>>, [button |-> button]), raw}
            IN  last'.call \in forms =>
                  /\ last'.err = NoError
                  /\ last'.ret = Self
                  /\ obj' = [obj EXCEPT !.buttons = Append(@, button)]
                  /\ \A other \in forms :
                       add_button(obj, other) = Done(obj', Ok(Self))]_vars

\* add_button was called with raw arguments on a card that held a button,
\* and the new Button is the last one
C8_Witness ==
    /\ IsCard(obj)
    /\ last.op = "add_button"
    /\ last.call = RawB1
    /\ last.ret = Self
    /\ Len(obj.buttons) >= 2
    /\ obj.buttons[Len(obj.buttons)] = B1

\* C9: a successful add_button, add_item or add_user leaves its list as it
\* was or with one entry more at the end, a successful remove_button or
\* remove_item leaves it with one position taken out and the others in
\* their order, no operation touches the other owned lists, and a mapping
\* returned by render() lists buttons, items, itemList and user as the
\* renders of the list's elements in the list's order.
C9_InsertionOrderPreserved ==
    [][LET owned == IF IsCard(obj)
                    THEN {"buttons"}
                         \cup (IF obj.cls = "ListCardComponent"
                               THEN {"items"} ELSE {})
                         \cup (IF obj.cls = "ItemCardComponent"
                               THEN {"item_list"} ELSE {})
                    ELSE IF obj.cls = "EventAPI" THEN {"users"} ELSE {}
           key == [buttons |-> "buttons", items |-> "items",
                   item_list |-> "itemList", users |-> "user"]
           op == last'.op
           target == IF op \in {"add_button", "remove_button"}
                     THEN "buttons"
                     ELSE IF op = "add_user" THEN "users"
                     ELSE IF obj.cls = "ListCardComponent" THEN "items"
                     ELSE "item_list"
           grown(old, new) ==
               \/ new = old
               \/ /\ Len(new) = Len(old) + 1
                  /\ SubSeq(new, 1, Len(old)) = old
           shrunk(old, new) ==
               \E i \in 1..Len(old) : new = DeleteAt(old, i)
           rendered(xs) ==
               ListV([i \in 1..Len(xs) |->
                        IF IsInstance("EventUser", xs[i])
                        THEN EventUser_render(xs[i]).ret
                        ELSE RenderOf(xs[i]).ret])
       IN  last'.err = NoError =>
             /\ op \in {"add_button", "add_item", "add_user"} =>
                  /\ grown(obj[target], obj'[target])
                  /\ \A f \in owned \ {target} : obj'[f] = obj[f]
             /\ op \in {"remove_button", "remove_item"} =>
                  /\ \/ shrunk(obj[target], obj'[target])
                     \/ obj'[target] = obj[target]
                  /\ \A f \in owned \ {target} : obj'[f] = obj[f]
             /\ op \in {"validate", "render"} =>
                  \A f \in owned : obj'[f] = obj[f]
             /\ op = "render" =>
                  \A f \in owned :
                     \/ f # "item_list" /\ obj[f] = <<>>
                     \/ last'.ret.dict[key[f]] = rendered(obj[f])]_vars

\* a list card that held I2, I1, I2 has lost its first I2, and I1 still
\* comes before the other I2
C9_Witness ==
    /\ obj.cls = "ListCardComponent"
    /\ last.op = "remove_item"
    /\ last.call = Call(<<I2>>, NoKw)
    /\ last.err = NoError
    /\ obj.items = <<I1, I2>>

\* C10: remove_button(button), ListCardComponent.remove_item(item) and
\* ItemCardComponent.remove_item(item), called with one object (no index)
\* that the owned list does not hold, raise an error and leave the list
\* as it was.
C10_RemovingNonMemberRaises ==
    [][LET arg == last'.call.args[1]
           single == /\ Len(last'.call.args) = 1
                     /\ DOMAIN last'.call.kwargs = {}
       IN  /\ (/\ IsCard(obj)
               /\ last'.op = "remove_button"
               /\ ~Contains(obj.buttons, arg)) =>
                 (last'.err # NoError /\ obj'.buttons = obj.buttons)
           /\ (/\ obj.cls = "ListCardComponent"
               /\ last'.op = "remove_item"
               /\ ~Contains(obj.items, arg)) =>
                 (last'.err # NoError /\ obj'.items = obj.items)
           /\ (/\ obj.cls = "ItemCardComponent"
               /\ last'.op = "remove_item"
               /\ single
               /\ ~IsInt(arg)
               /\ ~Contains(obj.item_list, arg)) =>
                 (last'.err # NoError /\ obj'.item_list = obj.item_list)]_vars

\* C11: on a ListCardComponent and on an ItemCardComponent that holds n
\* items, remove_item(i) with an integer 0 <= i < n succeeds and takes out
\* exactly the item at position i, the others staying in their order.
C11_RemoveItemByIndex ==
    [][LET items == IF obj.cls = "ListCardComponent" THEN obj.items
                    ELSE obj.item_list
           items2 == IF obj.cls = "ListCardComponent" THEN obj'.items
                     ELSE obj'.item_list
           arg == last'.call.args[1]
       IN  (/\ obj.cls \in {"ListCardComponent", "ItemCardComponent"}
            /\ last'.op = "remove_item"
            /\ Len(last'.call.args) = 1
            /\ DOMAIN last'.call.kwargs = {}
            /\ IsInt(arg)
            /\ 0 <= arg.int
            /\ arg.int < Len(items)) =>
              (last'.err = NoError
                 /\ items2 = DeleteAt(items, arg.int + 1))]_vars

C13_CommerceCurrencyIsWon ==
    obj.cls = "CommerceCardComponent" =>
      /\ (/\ ~IsNone(obj.currency)
          /\ obj.currency # StrV("won")
          /\ last.op \in {"validate", "render"}) =>
            (last.err # NoError /\ last.ret = NoReturn)
      /\ (/\ last.op = "render"
          /\ last.err = NoError
          /\ "currency" \in DOMAIN last.ret.dict) =>
            last.ret.dict["currency"] = StrV("won")

\* C14: a CommerceCardComponent fails validate() and render() when price
\* is None and when thumbnails is empty, so no rendered mapping has an
\* empty thumbnails list.
C14_CommercePriceAndThumbnail ==
    obj.cls = "CommerceCardComponent" =>
      /\ ((IsNone(obj.price) \/ obj.thumbnails = <<>>)
          /\ last.op \in {"validate", "render"}) =>
            (last.err # NoError /\ last.ret = NoReturn)
      /\ (last.op = "render" /\ last.err = NoError) =>
            last.ret.dict["thumbnails"] # ListV(<<>>)

\* C15: an ItemCardComponent whose item_list is empty, from construction
\* or after add_item and remove_item, fails validate() and render(), so
\* no rendered mapping has an empty itemList.
C15_ItemCardNeedsAnItem ==
    obj.cls = "ItemCardComponent" =>
      /\ (obj.item_list = <<>> /\ last.op \in {"validate", "render"}) =>
            (last.err # NoError /\ last.ret = NoReturn)
      /\ (last.op = "render" /\ last.err = NoError) =>
            last.ret.dict["itemList"] # ListV(<<>>)

\* C16: a BasicCardComponent whose thumbnail is None or is no Thumbnail
\* fails validate() with InvalidTypeError, and render() fails with that
\* same error and no other.
C16_BasicCardNeedsThumbnail ==
    LET typeError == InvalidTypeError("validate_type")
        buttonsTyped == \A i \in 1..Len(obj.buttons) :
                            IsInstance("Button", obj.buttons[i])
    IN  (/\ obj.cls = "BasicCardComponent"
         /\ ~IsInstance("Thumbnail", obj.thumbnail)
         /\ buttonsTyped
         /\ last.op \in {"validate", "render"}) =>
           (last.err = typeError /\ last.ret = NoReturn)

\* C17: ContextParam.render() of a param with a str value and a str
\* resolved_value returns the value, the same for every resolved_value,
\* and a mapping returned by Context.render() holds each ContextParam of
\* params as that value alone.
C17_ContextParamRendersValueOnly ==
    LET r == Render(obj)
    IN  /\ (/\ obj.cls = "ContextParam"
            /\ IsStr(obj.param.ContextParam.value)
            /\ IsStr(obj.param.ContextParam.resolved_value)) =>
              /\ r = Ok(obj.param.ContextParam.value)
              /\ last.op = "render" => last.ret = obj.param.ContextParam.value
              /\ \A other \in ContextParams :
                   (/\ other.param.ContextParam.value
                         = obj.param.ContextParam.value
                    /\ IsStr(other.param.ContextParam.resolved_value)) =>
                      Render(other) = r
        /\ (obj.cls = "Context" /\ IsDict(obj.params) /\ ~Raised(r)) =>
              /\ \A key \in DOMAIN obj.params.dict :
                   IsInstance("ContextParam", obj.params.dict[key]) =>
                     r.ret.dict["params"].dict[key]
                       = obj.params.dict[key].ContextParam.value
              /\ last.op = "render" => last.ret = r.ret

\* a context with two ContextParams has been rendered, and params holds
\* their values
C17_Witness ==
    /\ obj.cls = "Context"
    /\ last.op = "render"
    /\ last.err = NoError
    /\ DOMAIN obj.params.dict = {"k1", "k2"}
    /\ last.ret.dict["params"] = DictV([k1 |-> StrV("v"), k2 |-> StrV("w")])

\* C18: Context.from_dict of the inbound mapping of a context c with a str
\* name, an int lifespan, an int ttl or none (its key then present or
\* not) and ContextParams for params succeeds, and the context it builds
\* renders to what c renders to: name, lifeSpan, ttl and every param's
\* value.
C18_ContextRoundTrip ==
    [][(obj.cls = "dict" /\ last'.op = "from_dict") =>
         \A c \in TypedContexts :
            LET inbound == InboundShape(c)
                noTtl == DictV([key \in DOMAIN inbound.dict \ {"ttl"} |->
                                  inbound.dict[key]])
                d == Render(obj').ret.dict
            IN  (obj.data = inbound \/ (IsNone(c.ttl) /\ obj.data = noTtl))
                  =>
                  /\ last'.err = NoError
                  /\ obj'.cls = "Context"
                  /\ ~Raised(Render(c))
                  /\ Render(obj') = Render(c)
                  /\ d["name"] = c.name
                  /\ d["lifeSpan"] = c.lifespan
                  /\ IF IsNone(c.ttl) THEN "ttl" \notin DOMAIN d
                     ELSE d["ttl"] = c.ttl
                  /\ IF c.params = EmptyDict THEN "params" \notin DOMAIN d
                     ELSE d["params"] =
                            DictV([key \in DOMAIN c.params.dict |->
                               c.params.dict[key].ContextParam.value])]_vars

\* from_dict has built a context with lifespan, ttl and two params from
\* an inbound mapping
C18_Witness ==
    /\ obj.cls = "Context"
    /\ last.op = "from_dict"
    /\ last.err = NoError
    /\ obj.lifespan = IntV(1)
    /\ obj.ttl = IntV(600)
    /\ DOMAIN obj.params.dict = {"k1", "k2"}

\* C19: an EventAPI whose bot_id, api_key, event, params, option and data
\* are valid and whose users, added by add_user, are valid EventUsers
\* validates if and only if 1 <= len(users) <= max_user (100 by default):
\* not with no user, with exactly max_user users, not with one more.
C19_EventAPIUserCount ==
    LET fieldsValid ==
            /\ validate_str(<<obj.bot_id, obj.api_key, obj.event>>, TRUE)
                 = NoError
            /\ validate_type("dict", <<obj.params, obj.option, obj.data>>,
                             FALSE) = NoError
        usersValid ==
            \A i \in 1..Len(obj.users) :
                /\ IsInstance("EventUser", obj.users[i])
                /\ EventUser_validate(obj.users[i]) = NoError
        inRange == 1 <= Len(obj.users) /\ Len(obj.users) <= obj.max_user
    IN  (obj.cls = "EventAPI" /\ fieldsValid /\ usersValid) =>
          /\ (Validate(obj) = NoError) <=> inRange
          /\ last.op = "validate" => ((last.err = NoError) <=> inRange)
          /\ Len(obj.users) = 0 =>
               Validate(obj) = Err("AssertionError", "EventAPI.users_min")
          /\ Len(obj.users) > obj.max_user =>
               Validate(obj) = Err("AssertionError", "EventAPI.max_user")

\* an EventAPI with max_user 2 was given its second valid user by
\* add_user, and validates
C19_Witness ==
    /\ obj.cls = "EventAPI"
    /\ obj.max_user = 2
    /\ obj.users = <<U1, U2>>
    /\ last.op = "add_user"
    /\ last.err = NoError
    /\ Validate(obj) = NoError

\* C20: an EventAPI whose users list, of any length, holds at any position
\* an EventUser that fails its own validate (an id_type outside the three
\* allowed, no id or an id that is no str, properties that are no mapping)
\* fails validate() and render(), and render() returns no body.
C20_EventAPIInvalidUser ==
    (/\ obj.cls = "EventAPI"
     /\ \E i \in 1..Len(obj.users) :
           /\ IsInstance("EventUser", obj.users[i])
           /\ EventUser_validate(obj.users[i]) # NoError) =>
       /\ Validate(obj) # NoError
       /\ Raised(Render(obj))
       /\ Render(obj).ret = NoReturn
       /\ last.op \in {"validate", "render"} =>
            (last.err # NoError /\ last.ret = NoReturn)

\* an EventAPI within its cap holds a valid user followed by one without
\* an id, and render() has failed
C20_Witness ==
    /\ obj.cls = "EventAPI"
    /\ obj.users = <<U1, NoIdUser>>
    /\ Len(obj.users) <= obj.max_user
    /\ last.op = "render"
    /\ last.err # NoError
    /\ last.ret = NoReturn

---------------------------------------------------------------------------
\* C21: whenever headers has been read and has returned, on an EventAPI or
\* a CheckEventAPI and after whatever earlier reads and calls, the
\* Authorization value is the api_key the constructor was given if that
\* starts with "KakaoAK ", and "KakaoAK " followed by it otherwise; the
\* value never starts with the prefix twice.  twin holds the api_key as
\* given, since nothing is ever read from it.
C21_AuthorizationPrefixedOnce ==
    last.op = "headers" /\ last.err = NoError =>
        LET given == twin.api_key.str
            value == last.ret.dict["Authorization"].str
        IN  /\ value = IF StartsWith(given, KakaoAK) THEN given
                       ELSE KakaoAK \o given
            /\ ~StartsWith(value, KakaoAK \o KakaoAK)

\* headers read from an EventAPI that has users by now and whose api_key
\* is no longer the one it was given
C21_Witness ==
    /\ obj.cls = "EventAPI"
    /\ last.op = "headers" /\ last.err = NoError
    /\ obj.api_key # twin.api_key
    /\ Len(obj.users) > 0

---------------------------------------------------------------------------
\* C22: Context.from_dict, ContextParam.from_dict,
\* EventAPIResponse.from_dict and CheckEventAPIResponse.from_dict, given a
\* mapping that holds any part of the expected keys (none of them
\* included), return an object without raising, and every field whose key
\* is missing holds its default: "" for the strings, an empty mapping for
\* params, 0 for the counts, None for ttl and fail.
C22_FromDictToleratesAbsentKeys ==
    LET data == last.call.args[1]
        missing(key) == key \notin DOMAIN data.dict
    IN  /\ (last.op = "from_dict"
            /\ data \in SubMappings(ContextInbound)) =>
              /\ last.err = NoError
              /\ obj.cls = "Context"
              /\ missing("name") => obj.name = StrV("")
              /\ missing("lifespan") => obj.lifespan = StrV("")
              /\ missing("ttl") => obj.ttl = None
              /\ missing("params") => obj.params = EmptyDict
        /\ (last.op = "ContextParam.from_dict"
            /\ data \in SubMappings(ContextParamInbound)) =>
              /\ last.err = NoError
              /\ obj.cls = "ContextParam"
              /\ missing("value") => obj.param.ContextParam.value = StrV("")
              /\ missing("resolvedValue") =>
                    obj.param.ContextParam.resolved_value = StrV("")
        /\ (last.op = "EventAPIResponse.from_dict"
            /\ data \in SubMappings(EventAPIResponseInbound)) =>
              /\ last.err = NoError
              /\ obj.cls = "EventAPIResponse"
              /\ missing("task_id") => obj.task_id = StrV("")
              /\ missing("status") => obj.status = StrV("")
              /\ missing("message") => obj.message = StrV("")
        /\ (last.op = "CheckEventAPIResponse.from_dict"
            /\ data \in SubMappings(CheckEventAPIResponseInbound)) =>
              /\ last.err = NoError
              /\ obj.cls = "CheckEventAPIResponse"
              /\ missing("task_id") => obj.task_id = StrV("")
              /\ missing("status") => obj.status = StrV("")
              /\ missing("all_request_count") =>
                    obj.all_request_count = IntV(0)
              /\ missing("success_count") => obj.success_count = IntV(0)
              /\ missing("fail") => obj.fail = None

---------------------------------------------------------------------------
\* C23: the url read from an EventAPI is https://<host>/v2/bots/ followed
\* by the bot id and /talk, with nothing else between /bots/ and /talk;
\* on the dev channel the bot id is the one the constructor stored, its
\* trailing "!" stripped, so the segment ends in no "!".
C23_UrlSegmentIsBotId ==
    (obj.cls = "EventAPI" /\ last.op = "url") =>
        /\ last.err = NoError
        /\ \E host \in {"bot-api.kakao.com", "dev-bot-api.kakao.com"} :
              last.ret = StrV("https://" \o host \o "/v2/bots/"
                              \o obj.bot_id.str \o "/talk")
        /\ Truthy(obj.is_devchannel) =>
              ~EndsWith(last.ret.str, "!/talk")

---------------------------------------------------------------------------
\* C24: on an ItemCardComponent each of add_item(item), add_item(item=item),
\* add_item(title, description), add_item(title, description=d) and
\* add_item(title=t, description=d) returns and makes item_list one
\* longer, the new last element being the Item given or the Item of the
\* title and description given.
C24_ItemCardAddItemForms ==
    [][LET call == last'.call
           item == IF Len(call.args) = 1 /\ IsInstance("Item", call.args[1])
                   THEN call.args[1]
                   ELSE IF "item" \in DOMAIN call.kwargs
                   THEN call.kwargs["item"]
                   ELSE Item(call).ret
       IN  (/\ obj.cls = "ItemCardComponent"
            /\ last'.op = "add_item"
            /\ call \in {Call(<<T1>>, NoKw), Call(<<>>, [item |-> T1]),
                         Call(<<StrV("t1"), StrV("d1")>>, NoKw),
                         Call(<<StrV("t2")>>, [description |-> StrV("d2")]),
                         Call(<<>>, [title |-> StrV("t2"),
                                     description |-> StrV("d2")])}) =>
              /\ last'.err = NoError
              /\ IsInstance("Item", item)
              /\ obj'.item_list = Append(obj.item_list, item)]_vars

\* C25: on an ItemCardComponent remove_item(item=x) for a member x and
\* remove_item(index=i) for an index i within the list do what
\* remove_item(x) and remove_item(i) do: they return and leave the list
\* without that element.
C25_ItemCardRemoveItemByKeyword ==
    [][LET kwargs == last'.call.kwargs
           target == IF "item" \in DOMAIN kwargs THEN kwargs["item"]
                     ELSE kwargs["index"]
           valid == IF "item" \in DOMAIN kwargs
                    THEN Contains(obj.item_list, target)
                    ELSE PopInRange(obj.item_list, target.int)
           positional == ItemCardComponent_remove_item(
                             obj, Call(<<target>>, NoKw))
       IN  (/\ obj.cls = "ItemCardComponent"
            /\ last'.op = "remove_item"
            /\ Len(last'.call.args) = 0
            /\ valid) =>
              /\ last'.err = NoError
              /\ positional.err = NoError
              /\ obj' = positional.obj
              /\ Len(obj'.item_list) = Len(obj.item_list) - 1]_vars

\* C26: ItemCardComponent.add_item raises ValueError when it is given an
\* Item together with another argument, an item keyword that is no Item,
\* or a title without a description.
C26_ItemCardAddItemRaisesValueError ==
    [][LET call == last'.call
       IN  (/\ obj.cls = "ItemCardComponent"
            /\ last'.op = "add_item"
            /\ \/ /\ Len(call.args) = 1
                  /\ IsInstance("Item", call.args[1])
                  /\ DOMAIN call.kwargs # {}
               \/ /\ "item" \in DOMAIN call.kwargs
                  /\ ~IsInstance("Item", call.kwargs["item"])
               \/ /\ Len(call.args) = 1
                  /\ ~IsInstance("Item", call.args[1])
                  /\ "description" \notin DOMAIN call.kwargs) =>
              /\ last'.err # NoError
              /\ last'.err.exc = "ValueError"]_vars

---------------------------------------------------------------------------
\* C27: a TextCardComponent whose title is present and no string, or whose
\* description is present and no string, fails validate() and render(),
\* whatever the other of the two fields is.
C27_TextCardRejectsNonString ==
    (/\ obj.cls = "TextCardComponent"
     /\ \/ ~IsNone(obj.title) /\ ~IsStr(obj.title)
        \/ ~IsNone(obj.description) /\ ~IsStr(obj.description)
     /\ last.op \in {"validate", "render"}) =>
        /\ last.err # NoError
        /\ last.ret = NoReturn

---------------------------------------------------------------------------
---------------------------------------------------------------------------
\* C29: whenever add_button, add_item or remove_item of a ListCardComponent
\* or an ItemCardComponent, or add_user raises, the object and with it
\* its buttons, items, item_list and users are after the call exactly
\* what they were before it.
C29_AddRemoveAllOrNothing ==
    [][(/\ last'.op \in {"add_button", "add_item", "remove_item",
                         "add_user"}
        /\ last'.err # NoError) =>
          obj' = obj]_vars

---------------------------------------------------------------------------
\* C30: validate(), render(), is_empty, url and body leave every field of
\* the object as it was, whether they return or raise, and a render()
\* right after a render() gives what the first gave.  Reading headers
\* changes nothing of a CheckEventAPI; of an EventAPI it changes at most
\* api_key, and that only from a key without the "KakaoAK " prefix to the
\* same key with it.
C30_ReadsLeaveState ==
    [][/\ last'.op \in {"validate", "render", "is_empty", "url", "body"} =>
            obj' = obj
       /\ (last.op = "render" /\ last'.op = "render") =>
            (last'.err = last.err /\ last'.ret = last.ret)
       /\ last'.op = "headers" =>
            \/ obj' = obj
            \/ /\ obj.cls = "EventAPI"
               /\ ~StartsWith(obj.api_key.str, KakaoAK)
               /\ obj' = [obj EXCEPT
                            !.api_key = StrV(KakaoAK \o obj.api_key.str)]]_vars

\* body read from an EventAPI, and returned, after a read of headers has
\* put the prefix into api_key
C30_Witness ==
    /\ obj.cls = "EventAPI"
    /\ last.op = "body"
    /\ last.err = NoError
    /\ obj.api_key # twin.api_key
    /\ [obj EXCEPT !.api_key = twin.api_key, !.users = twin.users] = twin

=============================================================================
